---- MODULE Spec2Model ----
(***************************************************************************)
(* Model of the alert-processing core of Arrow                             *)
(* (src/logic/alert_data/processing.py): the trade-window trimmer          *)
(* trim_to_closed_trades and the single-position profit engine             *)
(* add_trade_profit.                                                       *)
(*                                                                         *)
(* A table (pandas DataFrame) is a sequence of rows; the index label of a  *)
(* row is its field ts.  A token is a sequence of one-character strings so *)
(* that str.strip() and str.lower() are computed, not assumed.  A float    *)
(* cell is either NaN (the empty sequence) or <<v>> with v an integer;     *)
(* prices, quantities and fees are integers, on which the float            *)
(* arithmetic of the code is exact.                                        *)
(***************************************************************************)
EXTENDS Integers, Sequences, FiniteSets, TLC

VARIABLES pc, df, cfg, work, i, in_pos, entry_price, entry_qty, direction,
          profits, out, trimmed, retrimmed, kwargs, split_data, result

vars == <<pc, df, cfg, work, i, in_pos, entry_price, entry_qty, direction,
          profits, out, trimmed, retrimmed, kwargs, split_data, result>>

(* ------------------------------ bounds -------------------------------- *)

\* longest table given to trim_to_closed_trades
MaxLen == 3
\* its index labels (timestamps) are drawn from 1..MaxTs, so labels can repeat
MaxTs == 2
\* longest table given to add_trade_profit
MaxRows == 4

(* ------------------------------ tokens -------------------------------- *)

BUY == <<"b", "u", "y">>
SELL == <<"s", "e", "l", "l">>
EXIT == <<"e", "x", "i", "t">>

UpperCase == <<"A", "B", "C", "D", "E", "F", "G", "H", "I", "J", "K", "L", "M",
               "N", "O", "P", "Q", "R", "S", "T", "U", "V", "W", "X", "Y", "Z">>
LowerCase == <<"a", "b", "c", "d", "e", "f", "g", "h", "i", "j", "k", "l", "m",
               "n", "o", "p", "q", "r", "s", "t", "u", "v", "w", "x", "y", "z">>

IsSpace(c) == c \in {" ", "\t", "\n"}

\* str.lower() on one character
LowerChar(c) ==
    IF \E k \in 1..Len(UpperCase) : UpperCase[k] = c
    THEN LowerCase[CHOOSE k \in 1..Len(UpperCase) : UpperCase[k] = c]
    ELSE c

\* str.lower()
StrLower(s) == [k \in 1..Len(s) |-> LowerChar(s[k])]

\* str.strip(): drop leading and trailing whitespace
StrStrip(s) ==
    LET keep == {k \in 1..Len(s) : ~IsSpace(s[k])}
    IN  IF keep = {} THEN <<>>
        ELSE LET lo == CHOOSE k \in keep : \A m \in keep : k <= m
                 hi == CHOOSE k \in keep : \A m \in keep : m <= k
             IN  SubSeq(s, lo, hi)

\* work[signal_col].astype(str).str.strip().str.lower(), one cell
NormToken(s) == StrLower(StrStrip(s))

\* the raw trade_type cells the inputs are drawn from: every kind of token,
\* in mixed casing and padding
RawTokens == { <<"b", "u", "y">>,
               <<" ", "S", "E", "L", "L">>,
               <<"E", "x", "i", "t", " ">>,
               <<"h", "o", "l", "d">> }

(* ------------------------------ tables -------------------------------- *)

Rows(labels, prices, quantities) ==
    [ts : labels, trade_type : RawTokens, price : prices, quantity : quantities]

\* a row of add_trade_profit's inputs carries one of these (price, quantity)
PriceQty == {<<100, 2>>, <<110, 1>>}

\* keyword arguments of add_trade_profit: the defaults, and one setting in
\* which every factor and fee is visible in the result
Configs == { [multiplier |-> 1, delta |-> 1, fee_per_trade |-> 0, fee_per_unit |-> 0],
             [multiplier |-> 2, delta |-> 3, fee_per_trade |-> 5, fee_per_unit |-> 7] }

NaN == <<>>
Some(v) == <<v>>
IsNaN(x) == x = <<>>

IsMonotonic(t) == \A k \in 1..(Len(t) - 1) : t[k].ts <= t[k + 1].ts

\* the reorderings of t
Reorderings(t) ==
    { [k \in 1..Len(t) |-> t[p[k]]] :
        p \in Permutations(1..Len(t)) }

\* DataFrame.sort_index(): a table whose index is already ascending is copied
\* as it is; otherwise the rows are ordered by an argsort that is not stable
\* (kind="quicksort"), so rows with equal labels come out in any order.
SortIndex(t) ==
    IF IsMonotonic(t) THEN {t}
    ELSE {s \in Reorderings(t) : IsMonotonic(s)}

(* ------------------------ trim_to_closed_trades ----------------------- *)

\* entry_set = {e.strip().lower() for e in entry_values}
EntrySet == {NormToken(BUY), NormToken(SELL)}

\* exit_norm / exit_token = exit_value.strip().lower()
ExitNorm == NormToken(EXIT)

\* np.flatnonzero(s_norm.isin(entry_set)), as 1-based positions
EntryPositions(w) == {k \in 1..Len(w) : NormToken(w[k].trade_type) \in EntrySet}

\* np.flatnonzero(post == exit_norm) with post = s_norm.iloc[first_pos:],
\* as positions of w
ExitPositionsFrom(w, first_pos) ==
    {k \in first_pos..Len(w) : NormToken(w[k].trade_type) = ExitNorm}

MinOf(S) == CHOOSE k \in S : \A m \in S : k <= m
MaxOf(S) == CHOOSE k \in S : \A m \in S : m <= k

\* variant of LocSlice: the end label is excluded, as a positional slice would
LocSlice_HalfOpen(w, a, b) ==
    LET inside == {k \in 1..Len(w) : a <= w[k].ts /\ w[k].ts < b}
    IN  IF inside = {} THEN <<>> ELSE SubSeq(w, MinOf(inside), MaxOf(inside))

\* work.loc[a:b] on an ascending index: a label slice, which takes every row
\* whose label lies in [a, b], the rows sharing the label a or b included
LocSlice(w, a, b) ==
    LET inside == {k \in 1..Len(w) : a <= w[k].ts /\ w[k].ts <= b}
    IN  IF inside = {} THEN <<>> ELSE SubSeq(w, MinOf(inside), MaxOf(inside))

\* variant of TrimSorted: without an exit the rows from the first entry on
\* are returned instead of no rows
TrimSorted_KeepsOpenTail(w) ==
    IF EntryPositions(w) = {} THEN <<>>
    ELSE LET first_pos == MinOf(EntryPositions(w))
             exit_positions == ExitPositionsFrom(w, first_pos)
         IN  IF exit_positions = {} THEN SubSeq(w, first_pos, Len(w))
             ELSE LocSlice(w, w[first_pos].ts, w[MaxOf(exit_positions)].ts)

\* trim_to_closed_trades after work = df.sort_index()
TrimSorted(w) ==
    IF EntryPositions(w) = {} THEN <<>>
    ELSE LET first_pos == MinOf(EntryPositions(w))
             exit_positions == ExitPositionsFrom(w, first_pos)
         IN  IF exit_positions = {} THEN <<>>
             ELSE LocSlice(w, w[first_pos].ts, w[MaxOf(exit_positions)].ts)

(* -------------------------- add_trade_profit -------------------------- *)

\* entry_dir_map, from entry_values = {BUY: +1, SELL: -1}
EntryDirMap == [t \in EntrySet |-> IF t = NormToken(BUY) THEN 1 ELSE -1]

\* the profit written on a closing row
TradePnl(exit_price, e_price, dir, qty, c) ==
    ((exit_price - e_price) * dir * (qty * c.multiplier)
        - (c.fee_per_trade + qty * c.fee_per_unit)) * c.delta

\* sum of the cells of p[1..k] that are not NaN
RECURSIVE SumDefined(_, _)
SumDefined(p, k) ==
    IF k = 0 THEN 0
    ELSE SumDefined(p, k - 1) + (IF IsNaN(p[k]) THEN 0 ELSE p[k][1])

\* Series.cumsum() (skipna=True): NaN cells are skipped by the sum and stay NaN
CumSum(p) == [k \in 1..Len(p) |-> IF IsNaN(p[k]) THEN NaN ELSE Some(SumDefined(p, k))]

\* out = work.copy(); out[PROFIT] = profits; out[rPROFIT] = out[PROFIT].cumsum()
WithProfit(w, p) ==
    [k \in 1..Len(w) |->
        [ts |-> w[k].ts, trade_type |-> w[k].trade_type, price |-> w[k].price,
         quantity |-> w[k].quantity, profit |-> p[k], rProfit |-> CumSum(p)[k]]]

(* ------------------------------ actions ------------------------------- *)

DefaultConfig == [multiplier |-> 1, delta |-> 1, fee_per_trade |-> 0, fee_per_unit |-> 0]

InitVars ==
    /\ pc = "start"
    /\ cfg = DefaultConfig
    /\ work = <<>>
    /\ i = 0
    /\ in_pos = FALSE
    /\ entry_price = NaN
    /\ entry_qty = 0
    /\ direction = 0
    /\ profits = <<>>
    /\ out = <<>>
    /\ trimmed = <<>>
    /\ retrimmed = <<>>
    /\ kwargs = <<>>
    /\ split_data = <<>>
    /\ result = <<>>

\* inputs of trim_to_closed_trades: any labels in any order, repeated labels
\* included; the trimmer reads no price and no quantity
InitTrim ==
    /\ \E n \in 0..MaxLen : df \in [1..n -> Rows(1..MaxTs, {100}, {1})]
    /\ InitVars

\* inputs of add_trade_profit: distinct labels, ascending (as the pipeline and
\* a default RangeIndex give them) or descending
InitProfit ==
    /\ \E n \in 0..MaxRows, asc \in BOOLEAN :
         \E tok \in [1..n -> RawTokens], pq \in [1..n -> PriceQty] :
            df = [k \in 1..n |-> [ts |-> IF asc THEN k ELSE n + 1 - k,
                                  trade_type |-> tok[k],
                                  price |-> pq[k][1], quantity |-> pq[k][2]]]
    /\ InitVars

loopVars == <<cfg, i, in_pos, entry_price, entry_qty, direction, profits, out>>

\* the arguments, the per-strategy map and the outcome of the calls of
\* filters.py and utils.py
callVars == <<kwargs, split_data, result>>

\* trim_to_closed_trades(df)
TrimToClosedTrades ==
    /\ pc = "start"
    /\ \E w \in SortIndex(df) :
        /\ work' = w
        /\ trimmed' = TrimSorted(w)
    /\ pc' = "trimmed"
    /\ UNCHANGED <<callVars, df, retrimmed, loopVars>>

\* trim_to_closed_trades applied to its own result
TrimAgain ==
    /\ pc = "trimmed"
    /\ \E w \in SortIndex(trimmed) : retrimmed' = TrimSorted(w)
    /\ pc' = "retrimmed"
    /\ UNCHANGED <<callVars, df, work, trimmed, loopVars>>

\* variant of AddTradeProfit: the profit column starts as zeros, not NaN
AddTradeProfit_Zeros ==
    /\ pc = "start"
    /\ \E c \in Configs : cfg' = c
    /\ \E w \in SortIndex(df) :
        /\ work' = w
        /\ profits' = [k \in 1..Len(w) |-> Some(0)]
    /\ i' = 0
    /\ in_pos' = FALSE
    /\ entry_price' = NaN
    /\ entry_qty' = 0
    /\ direction' = 0
    /\ pc' = "loop"
    /\ UNCHANGED <<callVars, df, out, trimmed, retrimmed>>

\* add_trade_profit(df, **cfg) up to the loop
AddTradeProfit ==
    /\ pc = "start"
    /\ \E c \in Configs : cfg' = c
    /\ \E w \in SortIndex(df) :
        /\ work' = w
        /\ profits' = [k \in 1..Len(w) |-> NaN]
    /\ i' = 0
    /\ in_pos' = FALSE
    /\ entry_price' = NaN
    /\ entry_qty' = 0
    /\ direction' = 0
    /\ pc' = "loop"
    /\ UNCHANGED <<callVars, df, out, trimmed, retrimmed>>

\* the token of the row the loop is about to process
Token == NormToken(work[i + 1].trade_type)

InLoop == pc = "loop" /\ i < Len(work)

\* not in_pos, token in entry_dir_map
OpenPosition ==
    /\ InLoop /\ ~in_pos /\ Token \in DOMAIN EntryDirMap
    /\ in_pos' = TRUE
    /\ direction' = EntryDirMap[Token]
    /\ entry_price' = Some(work[i + 1].price)
    /\ entry_qty' = work[i + 1].quantity
    /\ i' = i + 1
    /\ UNCHANGED <<callVars, pc, df, cfg, work, profits, out, trimmed, retrimmed>>

\* not in_pos, any other token: exits without a position are ignored
SkipWhileFlat ==
    /\ InLoop /\ ~in_pos /\ Token \notin DOMAIN EntryDirMap
    /\ i' = i + 1
    /\ UNCHANGED <<callVars, pc, df, cfg, work, in_pos, entry_price, entry_qty, direction,
                   profits, out, trimmed, retrimmed>>

\* variant of IgnoreEntry: a new entry replaces the open position
IgnoreEntry_Reenters ==
    /\ InLoop /\ in_pos /\ Token \in DOMAIN EntryDirMap
    /\ direction' = EntryDirMap[Token]
    /\ entry_price' = Some(work[i + 1].price)
    /\ entry_qty' = work[i + 1].quantity
    /\ i' = i + 1
    /\ UNCHANGED <<callVars, pc, df, cfg, work, in_pos, profits, out, trimmed, retrimmed>>

\* in_pos, token in entry_dir_map: continue
IgnoreEntry ==
    /\ InLoop /\ in_pos /\ Token \in DOMAIN EntryDirMap
    /\ i' = i + 1
    /\ UNCHANGED <<callVars, pc, df, cfg, work, in_pos, entry_price, entry_qty, direction,
                   profits, out, trimmed, retrimmed>>

\* variant of ClosePosition: the exit row's own quantity is used
ClosePosition_ExitQty ==
    /\ InLoop /\ in_pos /\ Token \notin DOMAIN EntryDirMap /\ Token = ExitNorm
    /\ profits' = [profits EXCEPT ![i + 1] =
                     Some(TradePnl(work[i + 1].price, entry_price[1], direction,
                                   work[i + 1].quantity, cfg))]
    /\ in_pos' = FALSE
    /\ entry_price' = NaN
    /\ entry_qty' = 0
    /\ direction' = 0
    /\ i' = i + 1
    /\ UNCHANGED <<callVars, pc, df, cfg, work, out, trimmed, retrimmed>>

\* variant of ClosePosition: the position state is not reset
ClosePosition_NoReset ==
    /\ InLoop /\ in_pos /\ Token \notin DOMAIN EntryDirMap /\ Token = ExitNorm
    /\ profits' = [profits EXCEPT ![i + 1] =
                     Some(TradePnl(work[i + 1].price, entry_price[1], direction,
                                   entry_qty, cfg))]
    /\ i' = i + 1
    /\ UNCHANGED <<callVars, pc, df, cfg, work, in_pos, entry_price, entry_qty, direction,
                   out, trimmed, retrimmed>>

\* in_pos, token == exit_token: write the profit and reset the position
ClosePosition ==
    /\ InLoop /\ in_pos /\ Token \notin DOMAIN EntryDirMap /\ Token = ExitNorm
    /\ profits' = [profits EXCEPT ![i + 1] =
                     Some(TradePnl(work[i + 1].price, entry_price[1], direction,
                                   entry_qty, cfg))]
    /\ in_pos' = FALSE
    /\ entry_price' = NaN
    /\ entry_qty' = 0
    /\ direction' = 0
    /\ i' = i + 1
    /\ UNCHANGED <<callVars, pc, df, cfg, work, out, trimmed, retrimmed>>

\* in_pos, neither an entry nor the exit token
SkipInPosition ==
    /\ InLoop /\ in_pos /\ Token \notin DOMAIN EntryDirMap /\ Token # ExitNorm
    /\ i' = i + 1
    /\ UNCHANGED <<callVars, pc, df, cfg, work, in_pos, entry_price, entry_qty, direction,
                   profits, out, trimmed, retrimmed>>

\* after the loop: attach the profit and running-profit columns
ReturnOut ==
    /\ pc = "loop" /\ i = Len(work)
    /\ out' = WithProfit(work, profits)
    /\ pc' = "done"
    /\ UNCHANGED <<callVars, df, cfg, work, i, in_pos, entry_price, entry_qty, direction,
                   profits, trimmed, retrimmed>>

NextTrim ==
    \/ TrimToClosedTrades
    \/ TrimAgain

NextProfit ==
    \/ AddTradeProfit
    \/ OpenPosition
    \/ SkipWhileFlat
    \/ IgnoreEntry
    \/ ClosePosition
    \/ SkipInPosition
    \/ ReturnOut

\* calls of trim_to_closed_trades
SpecTrim == InitTrim /\ [][NextTrim]_vars

\* calls of add_trade_profit
SpecProfit == InitProfit /\ [][NextProfit]_vars

(* ----------------- the profit engine as the spec states it ------------- *)

IsEntryRow(r) == NormToken(r.trade_type) \in {<<"b", "u", "y">>, <<"s", "e", "l", "l">>}
IsExitRow(r) == NormToken(r.trade_type) = <<"e", "x", "i", "t">>

\* buy = +1, sell = -1
RowDirection(r) == IF NormToken(r.trade_type) = <<"b", "u", "y">> THEN 1 ELSE -1

\* FLAT / IN_POSITION after the first k rows of w: 0 when flat, else the
\* position in w of the entry row that opened the position
RECURSIVE OpenEntry(_, _)
OpenEntry(w, k) ==
    IF k = 0 THEN 0
    ELSE LET before == OpenEntry(w, k - 1)
         IN  IF before = 0 THEN (IF IsEntryRow(w[k]) THEN k ELSE 0)
             ELSE IF IsEntryRow(w[k]) THEN before
             ELSE IF IsExitRow(w[k]) THEN 0
             ELSE before

\* row k of w is an exit processed while a position is open
Closes(w, k) == k \in 1..Len(w) /\ OpenEntry(w, k - 1) # 0 /\ IsExitRow(w[k])

\* the profit of the trade opened by row e and closed by row x
ClosedTradeProfit(e, x, c) ==
    ((x.price - e.price) * RowDirection(e) * (e.quantity * c.multiplier)
        - (c.fee_per_trade + e.quantity * c.fee_per_unit)) * c.delta

\* the sum of the profits of the trades closed by rows 1..k of w
RECURSIVE ClosedProfitUpTo(_, _, _)
ClosedProfitUpTo(w, k, c) ==
    IF k = 0 THEN 0
    ELSE ClosedProfitUpTo(w, k - 1, c)
         + (IF Closes(w, k) THEN ClosedTradeProfit(w[OpenEntry(w, k - 1)], w[k], c) ELSE 0)

Returned == pc = "done"

(* ------------------------------- claims -------------------------------- *)

\* C1: on every row where add_trade_profit closes a position the profit is
\* ((exit_price - entry_price) * direction * (entry_qty * multiplier)
\*   - (fee_per_trade + entry_qty * fee_per_unit)) * delta, with the price,
\* quantity and direction of the entry row that opened the position.
C1_ProfitOfClosingRow ==
    Returned =>
        \A k \in 1..Len(out) :
            Closes(work, k) =>
                out[k].profit =
                    Some(ClosedTradeProfit(work[OpenEntry(work, k - 1)], work[k], cfg))

\* C1 witness: a short position closed by an exit row whose own quantity
\* differs from the entry's, with fees and a multiplier in effect.
C1_Witness ==
    /\ Returned
    /\ cfg.fee_per_unit # 0
    /\ \E k \in 1..Len(out) :
        /\ Closes(work, k)
        /\ RowDirection(work[OpenEntry(work, k - 1)]) = -1
        /\ work[OpenEntry(work, k - 1)].quantity # work[k].quantity
        /\ work[OpenEntry(work, k - 1)].price # work[k].price
        /\ ~IsNaN(out[k].profit)

\* the recorded position and the profits written so far
Position == <<in_pos, entry_price, entry_qty, direction>>

\* C2: an entry token seen while a position is open is ignored: the recorded
\* entry price, quantity and direction stay unchanged, no profit is written on
\* that row, and the next exit is priced against the original entry.
C2_EntryWhileOpenIgnored ==
    /\ [][(pc = "loop" /\ i < Len(work) /\ in_pos /\ IsEntryRow(work[i + 1]))
            => (Position' = Position /\ profits' = profits)]_vars
    /\ [](Returned =>
            \A k \in 1..Len(out) :
                (OpenEntry(work, k - 1) # 0 /\ IsEntryRow(work[k])) =>
                    /\ IsNaN(out[k].profit)
                    /\ \A x \in (k + 1)..Len(out) :
                        (IsExitRow(work[x]) /\ \A m \in (k + 1)..(x - 1) : ~IsExitRow(work[m]))
                            => out[x].profit =
                                 Some(ClosedTradeProfit(work[OpenEntry(work, k - 1)],
                                                        work[x], cfg)))

\* C2 witness: an entry of the opposite direction, at another price and
\* quantity, arrived while a position was open, and a later exit closed it.
C2_Witness ==
    /\ Returned
    /\ \E k \in 1..Len(out) : \E x \in (k + 1)..Len(out) :
        /\ OpenEntry(work, k - 1) # 0
        /\ IsEntryRow(work[k])
        /\ RowDirection(work[k]) # RowDirection(work[OpenEntry(work, k - 1)])
        /\ work[k].price # work[OpenEntry(work, k - 1)].price
        /\ Closes(work, x)
        /\ OpenEntry(work, x - 1) = OpenEntry(work, k - 1)
        /\ ~IsNaN(out[x].profit)

\* C3: an exit token seen while no position is open is ignored: the engine
\* stays flat, no profit is written on that row, and two consecutive exits
\* never produce two profits for one entry.
C3_ExitWhileFlatIgnored ==
    /\ [][(pc = "loop" /\ i < Len(work) /\ ~in_pos /\ IsExitRow(work[i + 1]))
            => (~in_pos' /\ Position' = Position /\ profits' = profits)]_vars
    /\ [](Returned =>
            \A j \in 1..Len(out) : \A k \in (j + 1)..Len(out) :
                (/\ IsExitRow(work[j]) /\ IsExitRow(work[k])
                 /\ \A m \in (j + 1)..(k - 1) : ~IsEntryRow(work[m]))
                    => (IsNaN(out[j].profit) \/ IsNaN(out[k].profit)))

\* C3 witness: an entry, the exit that closes it, and a second exit right
\* after it, which finds the engine flat.
C3_Witness ==
    /\ Returned
    /\ \E k \in 2..Len(out) :
        /\ Closes(work, k - 1)
        /\ IsExitRow(work[k])
        /\ ~IsNaN(out[k - 1].profit)
        /\ IsNaN(out[k].profit)

\* C4: the profit column is defined on a row if and only if that row is an
\* exit token processed while a position was open.
C4_ProfitDefinedIffCloses ==
    Returned =>
        /\ Len(out) = Len(work)
        /\ \A k \in 1..Len(out) : (~IsNaN(out[k].profit)) <=> Closes(work, k)

\* C4 witness: one output with a closing row, an entry, an exit that was
\* ignored and a token that is neither.
C4_Witness ==
    /\ Returned
    /\ \E k \in 1..Len(out) : Closes(work, k) /\ ~IsNaN(out[k].profit)
    /\ \E k \in 1..Len(out) : IsExitRow(work[k]) /\ ~Closes(work, k)
    /\ \E k \in 1..Len(out) : ~IsExitRow(work[k]) /\ ~IsEntryRow(work[k])

\* C5: on every row of the output, closing or not, running_profit equals the
\* sum of the profits of all closing rows at or before that row.
C5_RunningProfitOnEveryRow ==
    Returned =>
        \A k \in 1..Len(out) : out[k].rProfit = Some(ClosedProfitUpTo(work, k, cfg))

\* C6: if a position is still open after the last row, the number of rows is
\* unchanged, no profit is attributed to the unmatched entry, and the final
\* running total equals the sum over the trades that were closed.
C6_OpenPositionAtEnd ==
    (Returned /\ OpenEntry(work, Len(work)) # 0) =>
        /\ Len(out) = Len(df)
        /\ IsNaN(out[OpenEntry(work, Len(work))].profit)
        /\ out[Len(out)].rProfit = Some(ClosedProfitUpTo(work, Len(work), cfg))

(* --------------------- the trimmer as the spec states it --------------- *)

Trimmed == pc \in {"trimmed", "retrimmed"}

\* the positions of the entry rows of w
Entries(w) == {k \in 1..Len(w) : IsEntryRow(w[k])}

\* the positions of the exit rows of w at or after position from
ExitsFrom(w, from) == {k \in from..Len(w) : IsExitRow(w[k])}

\* w has an entry row and an exit row at or after the first entry
HasClosedSpan(w) == Entries(w) # {} /\ ExitsFrom(w, MinOf(Entries(w))) # {}

\* C7: for a stream with an entry followed by an exit, trim_to_closed_trades
\* returns the contiguous slice of the time-sorted stream from the first entry
\* row through the last exit row after it, raw tokens untouched; rows before
\* the first entry and after the last exit are dropped.
C7_SliceFirstEntryToLastExit ==
    (Trimmed /\ HasClosedSpan(work)) =>
        trimmed = SubSeq(work, MinOf(Entries(work)),
                         MaxOf(ExitsFrom(work, MinOf(Entries(work)))))

\* C8: trim_to_closed_trades returns zero rows whenever the stream has no
\* entry token (compared after strip and lower), or has entries but no exit
\* token at or after the first entry.
C8_EmptyWithoutClosedSpan ==
    Trimmed =>
        /\ (\A k \in 1..Len(df) : ~IsEntryRow(df[k])) => trimmed = <<>>
        /\ ~HasClosedSpan(work) => trimmed = <<>>

\* C8 witness: a stream with an entry whose only exits come before it.
C8_Witness ==
    /\ Trimmed
    /\ Entries(work) # {}
    /\ \E k \in 1..Len(work) : IsExitRow(work[k]) /\ k < MinOf(Entries(work))
    /\ ExitsFrom(work, MinOf(Entries(work))) = {}
    /\ trimmed = <<>>

\* C9: trimming is idempotent: trimming the trimmed window again returns the
\* same rows in the same order.
C9_TrimIdempotent == pc = "retrimmed" => retrimmed = trimmed

\* C9 witness: a second trim of a non-empty window that the first trim cut
\* out of a longer stream.
C9_Witness ==
    /\ pc = "retrimmed"
    /\ trimmed # <<>>
    /\ Len(trimmed) < Len(df)
    /\ retrimmed # <<>>

\* C10: whatever the timestamps (they need not be distinct), a non-empty
\* result of trim_to_closed_trades starts with an entry signal and ends with
\* an exit signal.
C10_FirstEntryLastExit ==
    (Trimmed /\ trimmed # <<>>) =>
        IsEntryRow(trimmed[1]) /\ IsExitRow(trimmed[Len(trimmed)])

(* ============================== apply_flips =========================== *)

\* longest trade_type column given to apply_flips
MaxCells == 2

IsUpperChar(c) == \E k \in 1..Len(UpperCase) : UpperCase[k] = c
IsLowerChar(c) == \E k \in 1..Len(LowerCase) : LowerCase[k] = c
IsCased(c) == IsUpperChar(c) \/ IsLowerChar(c)

\* str.upper() on one character
UpperChar(c) ==
    IF IsLowerChar(c)
    THEN UpperCase[CHOOSE k \in 1..Len(LowerCase) : LowerCase[k] = c]
    ELSE c

\* str.upper()
StrUpper(s) == [k \in 1..Len(s) |-> UpperChar(s[k])]

\* str.title(): a cased character that starts a word becomes upper case, every
\* other cased character lower case
StrTitle(s) ==
    [k \in 1..Len(s) |->
        IF k = 1 \/ ~IsCased(s[IF k = 1 THEN 1 ELSE k - 1])
        THEN UpperChar(s[k]) ELSE LowerChar(s[k])]

\* str.isupper(): at least one cased character and none of them lower case
StrIsUpper(s) ==
    /\ \E k \in 1..Len(s) : IsCased(s[k])
    /\ \A k \in 1..Len(s) : ~IsLowerChar(s[k])

\* str.islower()
StrIsLower(s) ==
    /\ \E k \in 1..Len(s) : IsCased(s[k])
    /\ \A k \in 1..Len(s) : ~IsUpperChar(s[k])

\* str.istitle(): upper case characters only start words, lower case ones only
\* continue them
StrIsTitle(s) ==
    /\ \E k \in 1..Len(s) : IsCased(s[k])
    /\ \A k \in 1..Len(s) :
          LET starts == k = 1 \/ ~IsCased(s[IF k = 1 THEN 1 ELSE k - 1])
          IN  /\ IsUpperChar(s[k]) => starts
              /\ IsLowerChar(s[k]) => ~starts

\* _match_case(template, new_word)
MatchCase(template, new_word) ==
    IF StrIsUpper(template) THEN StrUpper(new_word)
    ELSE IF StrIsLower(template) THEN StrLower(new_word)
    ELSE IF StrIsTitle(template) THEN StrTitle(new_word)
    ELSE new_word

\* variant of FlipToken: a sell token is left as it is
FlipToken_OneWay(x) ==
    IF IsNaN(x) THEN x
    ELSE LET t == StrStrip(x[1])
             t_l == StrLower(t)
         IN  IF t_l = StrLower(BUY) THEN Some(MatchCase(t, SELL))
             ELSE Some(t)

\* _flip_token(x) with strip_whitespace = True; a cell x is NaN or Some(str)
FlipToken(x) ==
    IF IsNaN(x) THEN x
    ELSE LET t == StrStrip(x[1])
             t_l == StrLower(t)
         IN  IF t_l = StrLower(BUY) THEN Some(MatchCase(t, SELL))
             ELSE IF t_l = StrLower(SELL) THEN Some(MatchCase(t, BUY))
             ELSE Some(t)

\* work[signal_col] = work[signal_col].map(_flip_token); the other column is
\* copied
FlipColumn(w) ==
    [k \in 1..Len(w) |-> [trade_type |-> FlipToken(w[k].trade_type), other |-> w[k].other]]

\* the trade_type cells given to apply_flips: buy, sell, exit and unknown
\* tokens in lower, upper, title and mixed casing, padded and not, and a
\* missing cell
FlipCells == { Some(<<"b", "u", "y">>),
               Some(<<" ", "B", "u", "y", " ">>),
               Some(<<"S", "E", "L", "L">>),
               Some(<<"s", "E", "l", "L">>),
               Some(<<"e", "x", "i", "t">>),
               Some(<<" ", "E", "x", "i", "t", " ">>),
               Some(<<"H", "o", "l", "d">>),
               NaN }

\* the variables no step of apply_flips touches
flipIdle == <<cfg, i, in_pos, entry_price, entry_qty, direction, profits,
              trimmed, retrimmed, kwargs, split_data, result>>

InitFlip ==
    /\ \E n \in 1..MaxCells :
          \E col \in [1..n -> FlipCells] :
              df = [k \in 1..n |-> [trade_type |-> col[k], other |-> k]]
    /\ InitVars

\* apply_flips(df)
ApplyFlips ==
    /\ pc = "start"
    /\ work' = FlipColumn(df)
    /\ pc' = "flipped"
    /\ UNCHANGED <<df, out, flipIdle>>

\* apply_flips(apply_flips(df))
ApplyFlipsAgain ==
    /\ pc = "flipped"
    /\ out' = FlipColumn(work)
    /\ pc' = "reflipped"
    /\ UNCHANGED <<df, work, flipIdle>>

NextFlip == ApplyFlips \/ ApplyFlipsAgain

SpecFlip == InitFlip /\ [][NextFlip]_vars

\* a cell holding a buy or sell token, in any casing and padding
IsBuySellCell(x) == ~IsNaN(x) /\ NormToken(x[1]) \in EntrySet
\* a cell holding an exit token, in any casing and padding
IsExitCell(x) == ~IsNaN(x) /\ NormToken(x[1]) = ExitNorm
\* the casings _match_case carries over
CommonCasing(s) == StrIsUpper(s) \/ StrIsLower(s) \/ StrIsTitle(s)

\* C16 as stated: flipping twice gives back every buy/sell cell as it was, in
\* every casing and padding, and one flip leaves every exit cell as it was
C16_FlipInvolution ==
    /\ pc = "reflipped" =>
          \A k \in 1..Len(df) :
              IsBuySellCell(df[k].trade_type) => out[k].trade_type = df[k].trade_type
    /\ pc \in {"flipped", "reflipped"} =>
          \A k \in 1..Len(df) :
              IsExitCell(df[k].trade_type) => work[k].trade_type = df[k].trade_type

\* C16 amended: flipping twice gives back every buy/sell cell with its padding
\* stripped, in its own casing when that is all upper, all lower or title
\* case and in lower case otherwise; one flip turns buy into sell and sell
\* into buy, and changes an exit cell only by stripping its padding
C16_FlipInvolutionStripped ==
    /\ pc = "reflipped" =>
          \A k \in 1..Len(df) :
              IsBuySellCell(df[k].trade_type) =>
                  LET t == StrStrip(df[k].trade_type[1])
                  IN  /\ out[k].trade_type =
                             Some(IF CommonCasing(t) THEN t ELSE StrLower(t))
                      /\ NormToken(work[k].trade_type[1]) \in EntrySet
                      /\ NormToken(work[k].trade_type[1]) # NormToken(t)
    /\ pc \in {"flipped", "reflipped"} =>
          \A k \in 1..Len(df) :
              IsExitCell(df[k].trade_type) =>
                  work[k].trade_type = Some(StrStrip(df[k].trade_type[1]))

\* a padded title-case buy, a mixed-case sell and a padded exit have been
\* flipped twice
C16_Witness ==
    /\ pc = "reflipped"
    /\ \E k \in 1..Len(df) :
          /\ IsBuySellCell(df[k].trade_type)
          /\ out[k].trade_type # df[k].trade_type
    /\ \E k \in 1..Len(df) :
          /\ IsExitCell(df[k].trade_type)
          /\ work[k].trade_type # df[k].trade_type

(* ============================== filters.py ============================ *)

(* The index of a filtered table is a DatetimeIndex.  A timestamp is the    *)
(* number of minutes since 2025-07-01 00:00 (a Tuesday), within that month, *)
(* so the order of the labels is the order of the integers.  The outcome    *)
(* of a call is Ok(rows) or Raise(error).                                   *)

\* longest table given to a filter
MaxFilterRows == 2

Ok(rows) == [ok |-> TRUE, rows |-> rows, error |-> ""]
Raise(e) == [ok |-> FALSE, rows |-> <<>>, error |-> e]

Stamp(day, hour, minute) == ((day - 1) * 24 + hour) * 60 + minute

\* df.index.day
DayOf(ts) == (ts \div (24 * 60)) + 1
\* df.index.time
TimeOf(ts) == [hour |-> (ts \div 60) % 24, minute |-> ts % 60]
\* df.index.weekday, Mon=0 ... Sun=6; 2025-07-07 is a Monday
WeekdayOf(ts) == DayOf(ts) % 7
\* Timestamp.normalize(): midnight of the same day
Normalize(ts) == ts - (ts % (24 * 60))

\* a <= b on datetime.time values
TimeLe(a, b) == a.hour < b.hour \/ (a.hour = b.hour /\ a.minute <= b.minute)

\* df.loc[mask]: the rows whose mask is set, in their order
RECURSIVE LocMask(_, _)
LocMask(t, mask) ==
    IF t = <<>> THEN <<>>
    ELSE LET rest == LocMask(Tail(t), Tail(mask))
         IN  IF Head(mask) THEN <<Head(t)>> \o rest ELSE rest

Digits == <<"0", "1", "2", "3", "4", "5", "6", "7", "8", "9">>
IsDigit(c) == \E k \in 1..Len(Digits) : Digits[k] = c
DigitValue(c) == (CHOOSE k \in 1..Len(Digits) : Digits[k] = c) - 1

RECURSIVE DigitsValue(_)
DigitsValue(s) ==
    IF s = <<>> THEN 0
    ELSE DigitsValue(SubSeq(s, 1, Len(s) - 1)) * Len(Digits) + DigitValue(s[Len(s)])

\* int() of the digits body under a sign
SignedInt(sign, body) ==
    IF body = <<>> \/ \E k \in 1..Len(body) : ~IsDigit(body[k])
    THEN Raise("ValueError")
    ELSE Ok(IF sign = "-" THEN 0 - DigitsValue(body) ELSE DigitsValue(body))

\* int() of a str without surrounding whitespace: one sign is accepted
StrippedInt(t) ==
    IF t # <<>> /\ t[1] \in {"+", "-"} THEN SignedInt(t[1], Tail(t))
    ELSE SignedInt("+", t)

\* int(s) for a str: surrounding whitespace is accepted
ParseInt(s) == StrippedInt(StrStrip(s))

\* time(hour, minute) of the outcomes of int(hour_str) and int(minute_str)
MakeTime(h, m) ==
    IF ~h.ok \/ ~m.ok THEN Raise("ValueError")
    ELSE IF h.rows \notin 0..23 \/ m.rows \notin 0..59 THEN Raise("ValueError")
    ELSE Ok([hour |-> h.rows, minute |-> m.rows])

\* hour_str, minute_str = s.split(":") at the colons of s, then time(...)
SplitHhmm(t, colons) ==
    IF Cardinality(colons) # 1 THEN Raise("ValueError")
    ELSE MakeTime(ParseInt(SubSeq(t, 1, (CHOOSE c \in colons : TRUE) - 1)),
                  ParseInt(SubSeq(t, (CHOOSE c \in colons : TRUE) + 1, Len(t))))

\* the positions of the colons of t
Colons(t) == {k \in 1..Len(t) : t[k] = ":"}

\* s.split(":") of the stripped s
StrippedHhmm(t) == SplitHhmm(t, Colons(t))

\* _parse_hhmm(s): rows of the outcome is the datetime.time
ParseHhmm(s) == StrippedHhmm(StrStrip(s))

\* variant of TimeWindow: a window that wraps past midnight is intersected
\* instead of united
TimeWindow_NoWrap(t, start_t, end_t) ==
    IF ~start_t.ok THEN start_t
    ELSE IF ~end_t.ok THEN end_t
    ELSE Ok(LocMask(t, [k \in 1..Len(t) |->
                /\ TimeLe(start_t.rows, TimeOf(t[k].ts))
                /\ TimeLe(TimeOf(t[k].ts), end_t.rows)]))

\* filter_by_time_of_day after start_t and end_t are parsed
TimeWindow(t, start_t, end_t) ==
    IF ~start_t.ok THEN start_t
    ELSE IF ~end_t.ok THEN end_t
    ELSE IF TimeLe(start_t.rows, end_t.rows)
    THEN Ok(LocMask(t, [k \in 1..Len(t) |->
                /\ TimeLe(start_t.rows, TimeOf(t[k].ts))
                /\ TimeLe(TimeOf(t[k].ts), end_t.rows)]))
    ELSE Ok(LocMask(t, [k \in 1..Len(t) |->
                \/ TimeLe(start_t.rows, TimeOf(t[k].ts))
                \/ TimeLe(TimeOf(t[k].ts), end_t.rows)]))

\* filter_by_time_of_day(df, start_hhmm, end_hhmm)
FilterByTimeOfDay(t, start_hhmm, end_hhmm) ==
    TimeWindow(t, ParseHhmm(start_hhmm), ParseHhmm(end_hhmm))

\* _DAY_NAME_TO_NUM
DayNameToNum ==
    << <<<<"m", "o", "n", "d", "a", "y">>, 0>>,
       <<<<"m", "o", "n">>, 0>>,
       <<<<"t", "u", "e", "s", "d", "a", "y">>, 1>>,
       <<<<"t", "u", "e">>, 1>>,
       <<<<"t", "u", "e", "s">>, 1>>,
       <<<<"w", "e", "d", "n", "e", "s", "d", "a", "y">>, 2>>,
       <<<<"w", "e", "d">>, 2>>,
       <<<<"t", "h", "u", "r", "s", "d", "a", "y">>, 3>>,
       <<<<"t", "h", "u">>, 3>>,
       <<<<"t", "h", "u", "r">>, 3>>,
       <<<<"t", "h", "u", "r", "s">>, 3>>,
       <<<<"f", "r", "i", "d", "a", "y">>, 4>>,
       <<<<"f", "r", "i">>, 4>>,
       <<<<"s", "a", "t", "u", "r", "d", "a", "y">>, 5>>,
       <<<<"s", "a", "t">>, 5>>,
       <<<<"s", "u", "n", "d", "a", "y">>, 6>>,
       <<<<"s", "u", "n">>, 6>> >>

\* an element of days is an int, [int |-> n], or a str, [str |-> s]; the
\* outcome of the loop over days is the set wanted
RECURSIVE WantedDays(_, _)
WantedDays(days, wanted) ==
    IF days = <<>> THEN Ok(wanted)
    ELSE LET d == Head(days)
         IN  IF "int" \in DOMAIN d
             THEN IF d.int < 0 \/ d.int > 6 THEN Raise("ValueError")
                  ELSE WantedDays(Tail(days), wanted \cup {d.int})
             ELSE LET key == StrLower(StrStrip(d.str))
                      known == {k \in 1..Len(DayNameToNum) : DayNameToNum[k][1] = key}
                  IN  IF known = {} THEN Raise("ValueError")
                      ELSE WantedDays(Tail(days),
                               wanted \cup {DayNameToNum[k][2] : k \in known})

\* df.loc[mask] with mask = np.isin(wday, list(wanted))
WeekdayMask(t, wanted) ==
    IF ~wanted.ok THEN wanted
    ELSE Ok(LocMask(t, [k \in 1..Len(t) |-> WeekdayOf(t[k].ts) \in wanted.rows]))

\* filter_by_days_of_week(df, days)
FilterByDaysOfWeek(t, days) == WeekdayMask(t, WantedDays(days, {}))

\* variant of WeekOfMonth: the bucket changes one day early
WeekOfMonth_DayEarly(day) == (day \div 7) + 1

\* wom = ((day - 1) // 7) + 1
WeekOfMonth(day) == ((day - 1) \div 7) + 1

\* variant of FilterByWeeksOfMonth: the requested weeks are not validated
FilterByWeeksOfMonth_Unchecked(t, weeks) ==
    Ok(LocMask(t, [k \in 1..Len(t) |-> WeekOfMonth(DayOf(t[k].ts)) \in weeks]))

\* filter_by_weeks_of_month(df, weeks), weeks given as the set built from it
FilterByWeeksOfMonth(t, weeks) ==
    IF weeks = {} THEN Raise("ValueError")
    ELSE IF \E w \in weeks : w < 1 \/ w > 5 THEN Raise("ValueError")
    ELSE Ok(LocMask(t, [k \in 1..Len(t) |-> WeekOfMonth(DayOf(t[k].ts)) \in weeks]))

\* variant of DateMask: the index is compared as it is, with its time of day
DateMask_Unnormalized(t, s, e) ==
    IF e < s THEN Raise("ValueError")
    ELSE Ok(LocMask(t, [k \in 1..Len(t) |-> s <= t[k].ts /\ t[k].ts <= e]))

\* filter_by_date_range after s and e are normalized
DateMask(t, s, e) ==
    IF e < s THEN Raise("ValueError")
    ELSE Ok(LocMask(t, [k \in 1..Len(t) |->
                s <= Normalize(t[k].ts) /\ Normalize(t[k].ts) <= e]))

\* filter_by_date_range(df, start_date, end_date), the dates as Timestamps
FilterByDateRange(t, start_date, end_date) ==
    DateMask(t, Normalize(start_date), Normalize(end_date))

\* one "if <keys> in kwargs: output = <filter>(df, ...)" of filter_alert_data:
\* an exception raised before it has ended the call, a filter that is not
\* requested leaves output as it is
Stage(output, requested, filtered) ==
    IF ~output.ok THEN output
    ELSE IF requested THEN filtered
    ELSE output

\* filter_alert_data(df, **kwargs): every requested filter is given df, not
\* the output of the filter before it
FilterAlertData(t, kw) ==
    Stage(Stage(Stage(Stage(Ok(t),
        "start_time" \in DOMAIN kw /\ "end_time" \in DOMAIN kw,
            FilterByTimeOfDay(t, kw.start_time, kw.end_time)),
        "days" \in DOMAIN kw,
            FilterByDaysOfWeek(t, kw.days)),
        "weeks" \in DOMAIN kw,
            FilterByWeeksOfMonth(t, kw.weeks)),
        "start_date" \in DOMAIN kw /\ "end_date" \in DOMAIN kw,
            FilterByDateRange(t, kw.start_date, kw.end_date))

\* the index labels of the filtered tables: the clock times of the overnight
\* window 22:00-02:00 (inside, outside and on its bounds) on the first and
\* last day of a week-of-month bucket and on different weekdays
FilterStamps == { Stamp(1, 23, 0), Stamp(7, 1, 0), Stamp(8, 2, 0),
                  Stamp(8, 12, 0), Stamp(28, 22, 0), Stamp(31, 9, 30) }

\* HH:MM arguments: text is what the caller passes, at the minute of the day
\* it denotes (-1 when it denotes none)
HhmmInputs == { [text |-> <<"2", "2", ":", "0", "0">>, at |-> 22 * 60],
                [text |-> <<"0", "2", ":", "0", "0">>, at |-> 2 * 60],
                [text |-> <<" ", "9", ":", "3", "0", " ">>, at |-> 9 * 60 + 30],
                [text |-> <<"1", "6", ":", "0", "0">>, at |-> 16 * 60],
                [text |-> <<"2", "2", "0", "0">>, at |-> -1],
                [text |-> <<"2", "4", ":", "0", "0">>, at |-> -1] }

\* days arguments: ints and names, a name in mixed casing and padding, an int
\* out of range and an unknown name
DaysInputs == { << [int |-> 0] >>,
                << [str |-> <<" ", "T", "u", "e", " ">>], [int |-> 2] >>,
                << [int |-> 1], [int |-> 7] >>,
                << [str |-> <<"f", "u", "n", "d", "a", "y">>] >> }

\* weeks arguments: every set of ints of 0..6
WeeksInputs == SUBSET (0..6)

\* start_date and end_date arguments, one of them with a time of day
DateInputs == { Stamp(1, 0, 0), Stamp(8, 0, 0), Stamp(8, 15, 0),
                Stamp(28, 0, 0), Stamp(31, 0, 0) }

\* the keyword arguments given to filter_alert_data, by group of keys; <<>>
\* is no key of the group
TimeKwargs ==
    {<<>>, "start_time" :> <<"2", "2", ":", "0", "0">>}
        \cup { ("start_time" :> a) @@ ("end_time" :> b) :
                 <<a, b>> \in {<<<<"2", "2", ":", "0", "0">>, <<"0", "2", ":", "0", "0">>>>, <<<<" ", "9", ":", "3", "0", " ">>, <<"1", "6", ":", "0", "0">>>>, <<<<"2", "2", "0", "0">>, <<"0", "2", ":", "0", "0">>>>} }
DaysKwargs == {<<>>} \cup { "days" :> d : d \in DaysInputs }
WeeksKwargs == {<<>>} \cup { "weeks" :> w : w \in {{}, {1, 2}, {5}} }
DateKwargs ==
    {<<>>, "end_date" :> Stamp(8, 0, 0)}
        \cup { ("start_date" :> a) @@ ("end_date" :> b) :
                 <<a, b>> \in { <<Stamp(8, 15, 0), Stamp(8, 0, 0)>>,
                                <<Stamp(1, 0, 0), Stamp(28, 0, 0)>>,
                                <<Stamp(28, 0, 0), Stamp(8, 0, 0)>> } }

\* the variables no filter touches
filterIdle == <<df, cfg, work, i, in_pos, entry_price, entry_qty, direction,
                profits, out, trimmed, retrimmed, split_data>>

InitFilter ==
    /\ \E n \in 0..MaxFilterRows :
          \E labels \in [1..n -> FilterStamps] :
              df = [k \in 1..n |-> [ts |-> labels[k], other |-> k]]
    /\ InitVars

\* a call of filter_by_time_of_day
CallFilterByTimeOfDay ==
    /\ pc = "start"
    /\ \E a \in HhmmInputs, b \in HhmmInputs :
          /\ kwargs' = ("start_time" :> a.text) @@ ("end_time" :> b.text)
          /\ result' = FilterByTimeOfDay(df, a.text, b.text)
    /\ pc' = "filter_by_time_of_day"
    /\ UNCHANGED filterIdle

\* a call of filter_by_days_of_week
CallFilterByDaysOfWeek ==
    /\ pc = "start"
    /\ \E d \in DaysInputs :
          /\ kwargs' = ("days" :> d)
          /\ result' = FilterByDaysOfWeek(df, d)
    /\ pc' = "filter_by_days_of_week"
    /\ UNCHANGED filterIdle

\* a call of filter_by_weeks_of_month
CallFilterByWeeksOfMonth ==
    /\ pc = "start"
    /\ \E w \in WeeksInputs :
          /\ kwargs' = ("weeks" :> w)
          /\ result' = FilterByWeeksOfMonth(df, w)
    /\ pc' = "filter_by_weeks_of_month"
    /\ UNCHANGED filterIdle

\* a call of filter_by_date_range
CallFilterByDateRange ==
    /\ pc = "start"
    /\ \E a \in DateInputs, b \in DateInputs :
          /\ kwargs' = ("start_date" :> a) @@ ("end_date" :> b)
          /\ result' = FilterByDateRange(df, a, b)
    /\ pc' = "filter_by_date_range"
    /\ UNCHANGED filterIdle

\* a call of filter_alert_data
CallFilterAlertData ==
    /\ pc = "start"
    /\ \E kt \in TimeKwargs, kd \in DaysKwargs, kw \in WeeksKwargs, kr \in DateKwargs :
          /\ kwargs' = kt @@ kd @@ kw @@ kr
          /\ result' = FilterAlertData(df, kwargs')
    /\ pc' = "filter_alert_data"
    /\ UNCHANGED filterIdle

NextFilter ==
    \/ CallFilterByTimeOfDay
    \/ CallFilterByDaysOfWeek
    \/ CallFilterByWeeksOfMonth
    \/ CallFilterByDateRange
    \/ CallFilterAlertData

SpecFilter == InitFilter /\ [][NextFilter]_vars

(* ------------------------- claims on the filters ---------------------- *)

\* the minute of the day an HH:MM argument denotes, -1 if none
ClockOf(text) == (CHOOSE h \in HhmmInputs : h.text = text).at
\* the clock time of a timestamp, as the minute of the day
MinuteOfDay(ts) == ts % (24 * 60)
\* the clock time of ts lies in the window from minute s to minute e
InTimeWindow(ts, s, e) ==
    IF s <= e THEN s <= MinuteOfDay(ts) /\ MinuteOfDay(ts) <= e
    ELSE MinuteOfDay(ts) >= s \/ MinuteOfDay(ts) <= e
\* the week-of-month bucket of a day of the month
BucketOf(d) ==
    IF d <= 7 THEN 1 ELSE IF d <= 14 THEN 2 ELSE IF d <= 21 THEN 3
    ELSE IF d <= 28 THEN 4 ELSE 5
\* row k of df is among the returned rows
Returns(k) == \E j \in 1..Len(result.rows) : result.rows[j] = df[k]

\* C17: filter_by_time_of_day keeps exactly the rows whose clock time t has
\* start <= t <= end when start <= end, and t >= start or t <= end when
\* start > end; both bounds are inclusive and the date is irrelevant
C17_TimeOfDayWindow ==
    pc = "filter_by_time_of_day" =>
        LET s == ClockOf(kwargs.start_time)
            e == ClockOf(kwargs.end_time)
        IN  (s >= 0 /\ e >= 0) =>
                /\ result.ok
                /\ result.rows = SelectSeq(df, LAMBDA r : InTimeWindow(r.ts, s, e))

\* a window wrapping past midnight has kept a row on its end bound and
\* dropped another row
C17_Witness ==
    /\ pc = "filter_by_time_of_day"
    /\ result.ok
    /\ ClockOf(kwargs.start_time) > ClockOf(kwargs.end_time)
    /\ \E k \in 1..Len(df) :
          Returns(k) /\ MinuteOfDay(df[k].ts) = ClockOf(kwargs.end_time)
    /\ \E k \in 1..Len(df) : ~Returns(k)

\* C18: for every day of the month d in 1..31 the bucket ((d - 1) div 7) + 1
\* lies in 1..5 (1-7 -> 1, 8-14 -> 2, 15-21 -> 3, 22-28 -> 4, 29-31 -> 5), and
\* filter_by_weeks_of_month keeps exactly the rows whose bucket is requested
C18_WeekOfMonthBucket ==
    pc = "filter_by_weeks_of_month" =>
        /\ \A d \in 1..31 : WeekOfMonth(d) \in 1..5 /\ WeekOfMonth(d) = BucketOf(d)
        /\ result.ok =>
              result.rows =
                  SelectSeq(df, LAMBDA r : BucketOf(DayOf(r.ts)) \in kwargs.weeks)

\* a row of day 28 has been dropped and a row of day 31 kept
C18_Witness ==
    /\ pc = "filter_by_weeks_of_month"
    /\ result.ok
    /\ \E k \in 1..Len(df) : DayOf(df[k].ts) = 28 /\ ~Returns(k)
    /\ \E k \in 1..Len(df) : DayOf(df[k].ts) = 31 /\ Returns(k)

\* C19: filter_by_weeks_of_month fails with a validation error, returning no
\* table, when the requested set is empty or holds a value outside 1..5, and
\* succeeds for every non-empty subset of 1..5
C19_WeeksValidated ==
    pc = "filter_by_weeks_of_month" =>
        IF kwargs.weeks = {} \/ \E w \in kwargs.weeks : w \notin 1..5
        THEN ~result.ok /\ result.error = "ValueError" /\ result.rows = <<>>
        ELSE result.ok

\* a set holding a valid and an invalid week has been refused for a table
\* with rows
C19_Witness ==
    /\ pc = "filter_by_weeks_of_month"
    /\ df # <<>>
    /\ 1 \in kwargs.weeks
    /\ 6 \in kwargs.weeks
    /\ ~result.ok

EachFilterSucceeds(t, kw) ==
    /\ ("start_time" \in DOMAIN kw /\ "end_time" \in DOMAIN kw) =>
          FilterByTimeOfDay(t, kw.start_time, kw.end_time).ok
    /\ "days" \in DOMAIN kw => FilterByDaysOfWeek(t, kw.days).ok
    /\ "weeks" \in DOMAIN kw => FilterByWeeksOfMonth(t, kw.weeks).ok
    /\ ("start_date" \in DOMAIN kw /\ "end_date" \in DOMAIN kw) =>
          FilterByDateRange(t, kw.start_date, kw.end_date).ok

\* the row r satisfies every requested filter of kw
SatisfiesAll(r, kw) ==
    /\ ("start_time" \in DOMAIN kw /\ "end_time" \in DOMAIN kw) =>
          FilterByTimeOfDay(<<r>>, kw.start_time, kw.end_time).rows = <<r>>
    /\ "days" \in DOMAIN kw => FilterByDaysOfWeek(<<r>>, kw.days).rows = <<r>>
    /\ "weeks" \in DOMAIN kw => FilterByWeeksOfMonth(<<r>>, kw.weeks).rows = <<r>>
    /\ ("start_date" \in DOMAIN kw /\ "end_date" \in DOMAIN kw) =>
          FilterByDateRange(<<r>>, kw.start_date, kw.end_date).rows = <<r>>

\* C11: filter_alert_data applies the requested filters as a conjunction:
\* the returned rows are exactly the input rows that satisfy every requested
\* filter
C11_FiltersConjoined ==
    (pc = "filter_alert_data" /\ EachFilterSucceeds(df, kwargs)) =>
        /\ result.ok
        /\ result.rows = SelectSeq(df, LAMBDA r : SatisfiesAll(r, kwargs))

(* ================= the pipeline: processing.py and utils.py =========== *)

(* A table of the pipeline is [columns |-> its column names, rows |-> its   *)
(* rows].  A raw alert row is [Name, Time, Description]; a Description is   *)
(* [blank |-> whether the text is empty or whitespace, wellformed |->      *)
(* whether json.loads accepts the text, fields |-> the                      *)
(* object it decodes to].  A processed row carries its index label ts, the  *)
(* columns Name and timestamp, and the payload columns trade_type, price    *)
(* and quantity; price and quantity cells are NaN or Some(v), and a missing *)
(* trade_type cell is held as the text nan, which is what astype(str) makes *)
(* of it for every reader of the column.  A timestamp and its text are both *)
(* the minute count.                                                        *)

\* longest batch of raw alerts
MaxBatch == 3

\* the strategy names, in the order groupby iterates over them
NameOrder == <<"A", "B", "C">>

NanText == <<"n", "a", "n">>

\* obj = json.loads(raw) if raw.strip() else {}; JSONDecodeError -> {}
JsonLoads(raw) ==
    IF raw.blank THEN <<>>
    ELSE IF raw.wellformed THEN raw.fields
    ELSE <<>>

\* the rows of name, in their order
RECURSIVE GroupRows(_, _)
GroupRows(rows, name) ==
    IF rows = <<>> THEN <<>>
    ELSE IF Head(rows).Name = name THEN <<Head(rows)>> \o GroupRows(Tail(rows), name)
    ELSE GroupRows(Tail(rows), name)

\* split_data_by_name(df): name -> group
SplitDataByName(t) ==
    IF "Name" \notin t.columns THEN Raise("KeyError")
    ELSE Ok([name \in {t.rows[k].Name : k \in 1..Len(t.rows)} |->
                [columns |-> t.columns, rows |-> GroupRows(t.rows, name)]])

\* pd.json_normalize(json_records) with the Name and timestamp columns
\* attached
JsonNormalize(t) ==
    LET obj(k) == JsonLoads(t.rows[k].Description)
        cell(k, key) == IF key \in DOMAIN obj(k) THEN Some(obj(k)[key]) ELSE NaN
    IN  Ok([columns |->
               UNION {DOMAIN obj(k) : k \in 1..Len(t.rows)} \cup {"Name", "timestamp"},
            rows |->
               [k \in 1..Len(t.rows) |->
                   [ts |-> k,
                    Name |-> t.rows[k].Name,
                    timestamp |-> IF "Time" \in t.columns THEN t.rows[k].Time
                                  ELSE IF "timestamp" \in t.columns
                                       THEN t.rows[k].timestamp
                                  ELSE t.rows[k].ts,
                    trade_type |-> IF "trade_type" \in DOMAIN obj(k)
                                   THEN obj(k).trade_type ELSE NanText,
                    price |-> cell(k, "price"),
                    quantity |-> cell(k, "quantity")]]])

\* variant of ExtractJsonFromDescription: text json.loads rejects is not
\* caught
ExtractJsonFromDescription_Abort(t) ==
    IF "Description" \notin t.columns \/ "Name" \notin t.columns THEN Raise("KeyError")
    ELSE IF \E k \in 1..Len(t.rows) :
                ~t.rows[k].Description.blank /\ ~t.rows[k].Description.wellformed
    THEN Raise("JSONDecodeError")
    ELSE JsonNormalize(t)

\* variant of ExtractJsonFromDescription: the Time column is required too
ExtractJsonFromDescription_TimeRequired(t) ==
    IF "Description" \notin t.columns \/ "Name" \notin t.columns
           \/ "Time" \notin t.columns
    THEN Raise("KeyError")
    ELSE JsonNormalize(t)

\* extract_json_from_description(df)
ExtractJsonFromDescription(t) ==
    IF "Description" \notin t.columns \/ "Name" \notin t.columns THEN Raise("KeyError")
    ELSE JsonNormalize(t)

\* the text of a timestamp cell that pd.to_datetime rejects
Unparsable == -1

\* variant of FormatTimestampColumnAndSetAsIndex: a cell pd.to_datetime
\* rejects is taken as it is
FormatTimestampColumnAndSetAsIndex_Lenient(t) ==
    IF "timestamp" \notin t.columns THEN Raise("KeyError")
    ELSE Ok([columns |-> t.columns,
             rows |-> CHOOSE w \in SortIndex(
                          [k \in 1..Len(t.rows) |->
                              [t.rows[k] EXCEPT !.ts = t.rows[k].timestamp]]) : TRUE])

\* format_timestamp_column_and_set_as_index(df); the timestamps of a batch
\* are distinct, so sort_index has one outcome
FormatTimestampColumnAndSetAsIndex(t) ==
    IF "timestamp" \notin t.columns THEN Raise("KeyError")
    ELSE IF \E k \in 1..Len(t.rows) : t.rows[k].timestamp = Unparsable
    THEN Raise("ValueError")
    ELSE Ok([columns |-> t.columns,
             rows |-> CHOOSE w \in SortIndex(
                          [k \in 1..Len(t.rows) |->
                              [t.rows[k] EXCEPT !.ts = t.rows[k].timestamp]]) : TRUE])

\* trim_to_closed_trades(df) on a table of the pipeline
TrimTable(t) ==
    IF "trade_type" \notin t.columns THEN Raise("KeyError")
    ELSE Ok([columns |-> t.columns,
             rows |-> TrimSorted(CHOOSE w \in SortIndex(t.rows) : TRUE)])

\* the next step of a pipe on the outcome o of the step before it: an
\* exception raised there ends the pipe
ThenFormat(o) == IF o.ok THEN FormatTimestampColumnAndSetAsIndex(o.rows) ELSE o
ThenTrim(o) == IF o.ok THEN TrimTable(o.rows) ELSE o

\* variant of CleanFilterableJsonDfPipe: the table is not trimmed
CleanFilterableJsonDfPipe_Untrimmed(t) ==
    ThenFormat(ExtractJsonFromDescription(t))

\* clean_filterable_json_df_pipe(df)
CleanFilterableJsonDfPipe(t) ==
    ThenTrim(ThenFormat(ExtractJsonFromDescription(t)))

\* output_dict[name] = o unless o is an exception, which is logged
Put(output_dict, name, o) ==
    IF o.ok THEN output_dict @@ (name :> o.rows) ELSE output_dict

\* variant of ProcessGroups: the loop runs up to the first group whose pipe
\* raises, as it would without the try
RECURSIVE ProcessGroups_Abort(_, _, _)
ProcessGroups_Abort(groups, k, output_dict) ==
    IF k > Len(NameOrder) THEN output_dict
    ELSE IF NameOrder[k] \notin DOMAIN groups
    THEN ProcessGroups_Abort(groups, k + 1, output_dict)
    ELSE IF NameOrder[k] \in DOMAIN
                Put(output_dict, NameOrder[k], CleanFilterableJsonDfPipe(groups[NameOrder[k]]))
    THEN ProcessGroups_Abort(groups, k + 1,
             Put(output_dict, NameOrder[k], CleanFilterableJsonDfPipe(groups[NameOrder[k]])))
    ELSE output_dict

\* the loop of _process_and_split_data from the k-th name on: a group whose
\* pipe raises is logged and left out
RECURSIVE ProcessGroups(_, _, _)
ProcessGroups(groups, k, output_dict) ==
    IF k > Len(NameOrder) THEN output_dict
    ELSE IF NameOrder[k] \notin DOMAIN groups
    THEN ProcessGroups(groups, k + 1, output_dict)
    ELSE ProcessGroups(groups, k + 1,
             Put(output_dict, NameOrder[k], CleanFilterableJsonDfPipe(groups[NameOrder[k]])))

\* the body of _process_and_split_data after split_data_by_name
ThenProcessGroups(o) == IF o.ok THEN Ok(ProcessGroups(o.rows, 1, <<>>)) ELSE o

\* process_and_split_data(df)
ProcessAndSplitData(t) == ThenProcessGroups(SplitDataByName(t))

\* the rows a filter returns, with the columns of t
WithColumns(t, o) == IF o.ok THEN Ok([columns |-> t.columns, rows |-> o.rows]) ELSE o

\* filter_alert_data on a table of the pipeline
FilterTable(t, kw) == WithColumns(t, FilterAlertData(t.rows, kw))

\* the loop of filter_split_data from the k-th name on
RECURSIVE FilterGroups(_, _, _, _)
FilterGroups(split, kw, k, output_dict) ==
    IF k > Len(NameOrder) THEN output_dict
    ELSE IF NameOrder[k] \notin DOMAIN split
    THEN FilterGroups(split, kw, k + 1, output_dict)
    ELSE FilterGroups(split, kw, k + 1,
             Put(output_dict, NameOrder[k], FilterTable(split[NameOrder[k]], kw)))

\* filter_split_data(split_data, **kwargs)
FilterSplitData(split, kw) == Ok(FilterGroups(split, kw, 1, <<>>))

\* in_pos, entry_price, entry_qty and direction before the loop and after a
\* closed trade
Flat == [in_pos |-> FALSE, entry_price |-> NaN, entry_qty |-> NaN, direction |-> 0]

\* variant of PnlCell: the multiplier is left out of the profit
PnlCell_Unscaled(exit_price, pos, c) ==
    IF IsNaN(exit_price) \/ IsNaN(pos.entry_price) \/ IsNaN(pos.entry_qty) THEN NaN
    ELSE Some(TradePnl(exit_price[1], pos.entry_price[1], pos.direction,
                       pos.entry_qty[1], [c EXCEPT !.multiplier = 1]))

\* pnl * delta on cells: NaN when a price or the quantity is NaN
PnlCell(exit_price, pos, c) ==
    IF IsNaN(exit_price) \/ IsNaN(pos.entry_price) \/ IsNaN(pos.entry_qty) THEN NaN
    ELSE Some(TradePnl(exit_price[1], pos.entry_price[1], pos.direction,
                       pos.entry_qty[1], c))

\* one pass of the loop of add_trade_profit over the row r: the position
\* after it and the profit cell of the row
LoopStep(r, pos, c) ==
    LET token == NormToken(r.trade_type)
    IN  IF ~pos.in_pos
        THEN IF token \in DOMAIN EntryDirMap
             THEN [pos |-> [in_pos |-> TRUE, entry_price |-> r.price,
                            entry_qty |-> r.quantity,
                            direction |-> EntryDirMap[token]],
                   cell |-> NaN]
             ELSE [pos |-> pos, cell |-> NaN]
        ELSE IF token \in DOMAIN EntryDirMap THEN [pos |-> pos, cell |-> NaN]
        ELSE IF token = ExitNorm THEN [pos |-> Flat, cell |-> PnlCell(r.price, pos, c)]
        ELSE [pos |-> pos, cell |-> NaN]

\* the profits array after the loop of add_trade_profit has run from row k on
RECURSIVE ProfitLoop(_, _, _, _, _)
ProfitLoop(w, k, pos, c, acc) ==
    IF k > Len(w) THEN acc
    ELSE LET step == LoopStep(w[k], pos, c)
         IN  ProfitLoop(w, k + 1, step.pos, c, Append(acc, step.cell))

\* add_trade_profit(df, **c) on a table of the pipeline
AddTradeProfitTable(t, c) ==
    IF "price" \notin t.columns \/ "trade_type" \notin t.columns
           \/ "quantity" \notin t.columns
    THEN Raise("KeyError")
    ELSE LET w == CHOOSE s \in SortIndex(t.rows) : TRUE
             p == ProfitLoop(w, 1, Flat, c, <<>>)
             r == CumSum(p)
         IN  Ok([columns |-> t.columns \cup {"profit", "rProfit"},
                 rows |-> [k \in 1..Len(w) |->
                              w[k] @@ ("profit" :> p[k]) @@ ("rProfit" :> r[k])]])

\* profit_df[profit_df[TRADE_TYPE] == EXIT]
ExitRowsOnly(t) ==
    Ok([columns |-> t.columns,
        rows |-> LocMask(t.rows, [k \in 1..Len(t.rows) |-> t.rows[k].trade_type = EXIT])])

ThenExitRowsOnly(o) == IF o.ok THEN ExitRowsOnly(o.rows) ELSE o

\* add_profit_and_fmt(df, delta, multiplier)
AddProfitAndFmt(t, c) == ThenExitRowsOnly(AddTradeProfitTable(t, c))

\* variant of FlipTable: only the first row is flipped
FlipTable_FirstRow(t) ==
    IF "trade_type" \notin t.columns THEN Raise("KeyError")
    ELSE Ok([columns |-> t.columns,
             rows |-> [k \in 1..Len(t.rows) |->
                          IF k > 1 THEN t.rows[k]
                          ELSE [t.rows[k] EXCEPT
                                   !.trade_type = FlipToken(Some(t.rows[k].trade_type))[1]]]])

\* apply_flips(df) on a table of the pipeline
FlipTable(t) ==
    IF "trade_type" \notin t.columns THEN Raise("KeyError")
    ELSE Ok([columns |-> t.columns,
             rows |-> [k \in 1..Len(t.rows) |->
                          [t.rows[k] EXCEPT
                              !.trade_type = FlipToken(Some(t.rows[k].trade_type))[1]]]])

ThenFilter(o, kw) == IF o.ok THEN FilterTable(o.rows, kw) ELSE o
ThenFlip(o, flip) == IF o.ok /\ flip THEN FlipTable(o.rows) ELSE o
ThenProfit(o, c) == IF o.ok THEN AddProfitAndFmt(o.rows, c) ELSE o

\* apply_filters_and_profit(df, delta, multiplier, flip, **kwargs)
ApplyFiltersAndProfit(t, c, flip, kw) ==
    ThenProfit(ThenFlip(ThenFilter(CleanFilterableJsonDfPipe(t), kw), flip), c)

\* get_profit_df_by_name after split_data = process_and_split_data(master_df)
ProfitOfName(split, name, c, flip, kw) ==
    IF name \notin DOMAIN split THEN Raise("ValueError: not found in data")
    ELSE ApplyFiltersAndProfit(split[name], c, flip, kw)

\* the Description cells of the batches: a buy and an exit payload, a payload
\* without trade_type, and text json.loads rejects
Descriptions ==
    { [blank |-> FALSE, wellformed |-> TRUE,
       fields |-> [trade_type |-> BUY, price |-> 100, quantity |-> 2]],
      [blank |-> FALSE, wellformed |-> TRUE,
       fields |-> [trade_type |-> EXIT, price |-> 110, quantity |-> 1]],
      [blank |-> FALSE, wellformed |-> TRUE, fields |-> [price |-> 100]],
      [blank |-> FALSE, wellformed |-> FALSE, fields |-> <<>>] }

\* the Time of the k-th alert of a batch: noon of the first day of the k-th
\* week-of-month bucket
TimeAt(k) == Stamp(7 * (k - 1) + 1, 12, 0)

\* the keyword arguments given to get_filtered_split_data
PipelineKwargs ==
    { <<>>,
      "weeks" :> {1},
      "weeks" :> {},
      ("start_time" :> <<"2", "2", ":", "0", "0">>)
          @@ ("end_time" :> <<"0", "2", ":", "0", "0">>) }

\* delta = 1 and the default multiplier of get_profit_df_by_name
UtilsConfig == [multiplier |-> 4, delta |-> 1, fee_per_trade |-> 0, fee_per_unit |-> 0]

\* the variables no call of utils.py touches
pipelineIdle == <<df, work, i, in_pos, entry_price, entry_qty, direction,
                  profits, out, trimmed, retrimmed>>

\* a batch of raw alerts of up to three strategies, received in or against
\* the order of their times
InitPipeline ==
    /\ \E n \in 1..MaxBatch, asc \in BOOLEAN :
          \E names \in [1..n -> {NameOrder[k] : k \in 1..Len(NameOrder)}],
             descs \in [1..n -> Descriptions] :
              df = [columns |-> {"Name", "Time", "Description"},
                    rows |-> [k \in 1..n |->
                                 [Name |-> names[k],
                                  Time |-> TimeAt(IF asc THEN k ELSE n + 1 - k),
                                  Description |-> descs[k]]]]
    /\ InitVars

\* split_data = process_and_split_data(df), the first statement of
\* get_filtered_split_data and of get_profit_df_by_name
ProcessAndSplit ==
    /\ pc = "start"
    /\ split_data' = ProcessAndSplitData(df)
    /\ pc' = "split"
    /\ UNCHANGED <<kwargs, result, cfg, pipelineIdle>>

\* get_filtered_split_data: return filter_split_data(split_data, **kwargs)
ReturnFilteredSplitData ==
    /\ pc = "split"
    /\ \E kw \in PipelineKwargs :
          /\ kwargs' = kw
          /\ result' = IF split_data.ok THEN FilterSplitData(split_data.rows, kw)
                        ELSE split_data
    /\ pc' = "get_filtered_split_data"
    /\ UNCHANGED <<split_data, cfg, pipelineIdle>>

\* get_profit_df_by_name, without filters: the lookup of name and
\* apply_filters_and_profit(split_data[name], ...)
ReturnProfitDfByName ==
    /\ pc = "split"
    /\ \E name \in {NameOrder[k] : k \in 1..Len(NameOrder)}, flip \in BOOLEAN :
          /\ kwargs' = ("name" :> name) @@ ("flip" :> flip)
          /\ result' = IF split_data.ok
                        THEN ProfitOfName(split_data.rows, name, UtilsConfig, flip, <<>>)
                        ELSE split_data
    /\ cfg' = UtilsConfig
    /\ pc' = "get_profit_df_by_name"
    /\ UNCHANGED <<split_data, pipelineIdle>>

\* a call of apply_filters_and_profit on the raw alerts of one strategy
CallApplyFiltersAndProfit ==
    /\ pc = "start"
    /\ \E name \in {df.rows[k].Name : k \in 1..Len(df.rows)}, flip \in BOOLEAN :
          /\ kwargs' = ("name" :> name) @@ ("flip" :> flip)
          /\ result' = ApplyFiltersAndProfit(
                           [columns |-> df.columns, rows |-> GroupRows(df.rows, name)],
                           UtilsConfig, flip, <<>>)
    /\ cfg' = UtilsConfig
    /\ pc' = "apply_filters_and_profit"
    /\ UNCHANGED <<split_data, pipelineIdle>>

NextPipeline ==
    \/ ProcessAndSplit
    \/ ReturnFilteredSplitData
    \/ ReturnProfitDfByName
    \/ CallApplyFiltersAndProfit

SpecPipeline == InitPipeline /\ [][NextPipeline]_vars

(* ------------------------ claims on the pipeline ---------------------- *)

\* the strategy names that occur in the batch
BatchNames == {df.rows[k].Name : k \in 1..Len(df.rows)}
\* the raw alerts of one strategy
Substream(name) == [columns |-> df.columns, rows |-> GroupRows(df.rows, name)]
\* the payloads of one strategy as a time-sorted table, before any trimming
Normalized(name) == ThenFormat(ExtractJsonFromDescription(Substream(name)))
\* processing the sub-stream of name raises
Fails(name) == ~CleanFilterableJsonDfPipe(Substream(name)).ok
\* w holds an exit row that closes an open position
HasClosedTrade(w) == \E k \in 1..Len(w) : Closes(w, k)
\* the batch without the alerts of the strategies whose processing raises
WithoutFailing ==
    [columns |-> df.columns, rows |-> SelectSeq(df.rows, LAMBDA r : ~Fails(r.Name))]

\* C12: for a batch that contains strategy S with a closed trade,
\* get_profit_df_by_name(batch, S) without filters returns, without raising,
\* the closing rows of S with their profit and running profit: what the
\* pipeline normalize -> trim -> filter -> (flip) -> profit makes of the
\* alerts of S
C12_ProfitByNameCompletes ==
    (/\ pc = "get_profit_df_by_name"
     /\ kwargs.name \in BatchNames
     /\ HasClosedTrade(Normalized(kwargs.name).rows.rows)) =>
        /\ result.ok
        /\ result = ApplyFiltersAndProfit(Substream(kwargs.name), cfg, kwargs.flip, <<>>)

\* C13: an exception raised while processing one strategy's sub-stream
\* removes only that strategy from the result map: every other strategy's
\* entry is present and is what it would be without the failing strategies
\* in the batch, and the batch call does not raise; filter_split_data isolates
\* the exception of a strategy's filter in the same way
C13_FailureIsolated ==
    /\ pc = "split" =>
          /\ split_data.ok
          /\ DOMAIN split_data.rows = {name \in BatchNames : ~Fails(name)}
          /\ split_data.rows = ProcessAndSplitData(WithoutFailing).rows
    /\ pc = "get_filtered_split_data" =>
          /\ result.ok
          /\ DOMAIN result.rows =
                {name \in DOMAIN split_data.rows :
                    FilterTable(split_data.rows[name], kwargs).ok}
          /\ \A name \in DOMAIN result.rows :
                result.rows[name] = FilterTable(split_data.rows[name], kwargs).rows

\* a strategy whose payloads carry no trade_type has been left out, and a
\* strategy processed after it is in the map with its trimmed rows
C13_Witness ==
    /\ pc = "split"
    /\ \E a \in 1..Len(NameOrder), b \in 1..Len(NameOrder) :
          /\ a < b
          /\ NameOrder[a] \in BatchNames
          /\ Fails(NameOrder[a])
          /\ NameOrder[b] \in DOMAIN split_data.rows
          /\ split_data.rows[NameOrder[b]].rows # <<>>

\* C14: get_profit_df_by_name fails with the not-found error exactly when the
\* requested name is absent from the batch
C14_NotFoundIffAbsent ==
    pc = "get_profit_df_by_name" =>
        (result.error = "ValueError: not found in data" <=> kwargs.name \notin BatchNames)

\* C15 as stated: a processed (trimmed and filtered) table that contains no
\* closed trade has zero rows
C15_NoClosedTradeNoRows ==
    (pc = "get_filtered_split_data" /\ result.ok) =>
        \A name \in DOMAIN result.rows :
            ~HasClosedTrade(result.rows[name].rows) => result.rows[name].rows = <<>>

\* C15 amended: if the time-sorted sub-stream of a strategy contains no closed
\* trade, its processed table has zero rows under every accepted filter
\* configuration (the filters run after the trim, so a processed table can
\* hold an entry whose exit was filtered out)
C15_NoClosedTradeInStreamNoRows ==
    (pc = "get_filtered_split_data" /\ result.ok) =>
        \A name \in DOMAIN result.rows :
            ~HasClosedTrade(Normalized(name).rows.rows) => result.rows[name].rows = <<>>

\* a strategy with an entry and no closed trade has an empty processed table
\* under a week-of-month filter
C15_Witness ==
    /\ pc = "get_filtered_split_data"
    /\ "weeks" \in DOMAIN kwargs
    /\ \E name \in DOMAIN result.rows :
          /\ Entries(Normalized(name).rows.rows) # {}
          /\ ~HasClosedTrade(Normalized(name).rows.rows)
          /\ result.rows[name].rows = <<>>

(* ============================ FilterParams ============================ *)
(* models/filters.py: the validated container of the filter options.  The *)
(* keyword arguments of the constructor are a function of the given field *)
(* names; a field that is not given, or given as None, is None.  A time   *)
(* is its text, days a list of [int |-> n] and [str |-> s], weeks a list  *)
(* of ints, a date the day of July 2025.  The outcome of the constructor  *)
(* is Ok(fields) or Raise("ValidationError").                              *)

\* largest hour and minute written in a time text: one past the valid ones
MaxHour == 24
MaxMinute == 60

None == <<>>

\* the value of a field of the keyword arguments
Given(kw, field) == IF field \in DOMAIN kw THEN <<kw[field]>> ELSE None

\* f"{n:02d}" of n in 0..99
TwoDigits(n) == <<Digits[(n \div 10) + 1], Digits[(n % 10) + 1]>>

\* _TIME_RE.match(t): ^(\d{1,2}):(\d{2})$
TimeReMatches(t) ==
    /\ Len(t) \in {4, 5}
    /\ t[Len(t) - 2] = ":"
    /\ \A k \in 1..Len(t) : k # Len(t) - 2 => IsDigit(t[k])

\* the range check of hh and mm and f"{hh:02d}:{mm:02d}"
NormalizedTime(hh, mm) ==
    IF hh < 0 \/ hh > 23 \/ mm < 0 \/ mm > 59 THEN Raise("ValueError")
    ELSE Ok(TwoDigits(hh) \o <<":">> \o TwoDigits(mm))

\* m = _TIME_RE.match(t), hh = int(m.group(1)), mm = int(m.group(2))
MatchedTime(t) ==
    IF ~TimeReMatches(t) THEN Raise("ValueError")
    ELSE NormalizedTime(DigitsValue(SubSeq(t, 1, Len(t) - 3)),
                        DigitsValue(SubSeq(t, Len(t) - 1, Len(t))))

\* FilterParams._validate_time_format(v), v None or <<text>>
ValidateTimeFormat(v) ==
    IF v = None THEN Ok(None)
    ELSE LET m == MatchedTime(StrStrip(v[1]))
         IN  IF m.ok THEN Ok(<<m.rows>>) ELSE m

\* _DAY_NAME_TO_NUM_KEYS
DayNameToNumKeys == {DayNameToNum[k][1] : k \in 1..Len(DayNameToNum)}

\* the loop of _validate_days over the items, normalized the list so far
RECURSIVE NormalizedDays(_, _)
NormalizedDays(items, normalized) ==
    IF items = <<>> THEN Ok(<<normalized>>)
    ELSE IF "int" \in DOMAIN Head(items)
    THEN IF Head(items).int < 0 \/ Head(items).int > 6 THEN Raise("ValueError")
         ELSE NormalizedDays(Tail(items), Append(normalized, Head(items)))
    ELSE IF StrLower(StrStrip(Head(items).str)) \notin DayNameToNumKeys
    THEN Raise("ValueError")
    ELSE NormalizedDays(Tail(items),
             Append(normalized, [str |-> StrLower(StrStrip(Head(items).str))]))

\* FilterParams._validate_days(v), v None or <<list>>: a single str or int
\* is the list of that one item
ValidateDays(v) == IF v = None THEN Ok(None) ELSE NormalizedDays(v[1], <<>>)

\* FilterParams._validate_weeks(v), v None or <<list of ints>>: a single
\* int is the list of that one item
ValidateWeeks(v) ==
    IF v = None THEN Ok(None)
    ELSE IF \E k \in 1..Len(v[1]) : v[1][k] < 1 \/ v[1][k] > 5 THEN Raise("ValueError")
    ELSE Ok(v)

\* variant of CheckTimeAndDateConsistency: a time without its partner is
\* accepted
CheckTimeAndDateConsistency_Unpaired(values) ==
    IF /\ values.start_date # None /\ values.end_date # None
       /\ values.end_date[1] < values.start_date[1]
    THEN Raise("ValidationError")
    ELSE Ok(values)

\* FilterParams._check_time_and_date_consistency(values)
CheckTimeAndDateConsistency(values) ==
    IF (values.start_time # None) # (values.end_time # None)
    THEN Raise("ValidationError")
    ELSE IF /\ values.start_date # None /\ values.end_date # None
            /\ values.end_date[1] < values.start_date[1]
    THEN Raise("ValidationError")
    ELSE Ok(values)

\* the model validator runs after every field validator has succeeded
ValidatedFields(st, et, days, weeks, sd, ed) ==
    IF ~st.ok \/ ~et.ok \/ ~days.ok \/ ~weeks.ok THEN Raise("ValidationError")
    ELSE CheckTimeAndDateConsistency(
             [start_time |-> st.rows, end_time |-> et.rows, days |-> days.rows,
              weeks |-> weeks.rows, start_date |-> sd, end_date |-> ed])

\* FilterParams(**kw)
FilterParams(kw) ==
    ValidatedFields(ValidateTimeFormat(Given(kw, "start_time")),
                    ValidateTimeFormat(Given(kw, "end_time")),
                    ValidateDays(Given(kw, "days")),
                    ValidateWeeks(Given(kw, "weeks")),
                    Given(kw, "start_date"), Given(kw, "end_date"))

\* str(d) of the date d of July 2025
DateStr(day) == <<"2", "0", "2", "5", "-", "0", "7", "-">> \o TwoDigits(day)

\* one "if self.<field> is not None: out[<key>] = ..." of to_filter_kwargs
Entry(key, v) == IF v = None THEN <<>> ELSE key :> v[1]

\* FilterParams.to_filter_kwargs(self)
ToFilterKwargsOf(self) ==
    (IF self.start_time # None /\ self.end_time # None
     THEN Entry("start_time", self.start_time) @@ Entry("end_time", self.end_time)
     ELSE <<>>)
    @@ Entry("days", self.days)
    @@ Entry("weeks", self.weeks)
    @@ (IF self.start_date # None /\ self.end_date # None
        THEN ("start_date" :> DateStr(self.start_date[1]))
                 @@ ("end_date" :> DateStr(self.end_date[1]))
        ELSE <<>>)

\* n written with as few digits as it takes, or zero-padded to two digits
Written(n, padded) ==
    IF n < 10 /\ ~padded THEN <<Digits[n + 1]>>
    ELSE IF n < 100 THEN TwoDigits(n)
    ELSE <<Digits[(n \div 100) + 1]>> \o TwoDigits(n % 100)

\* time texts that are not of the form digits:digits, and one with padding
OddTimes == { <<"9">>, <<"2", "2", "0", "0">>, <<"9", ":", "3", "0", ":", "0">>,
              <<" ", "9", ":", "3", "0", " ">>, <<"a", ":", "3", "0">> }

\* the partner of a time: none, a valid one, one out of range
PartnerTimes == {<<>>, "end_time" :> <<"1", "6", ":", "0", "0">>,
                 "end_time" :> <<"2", "5", ":", "0", "0">>}

ParamsDays == {<<>>, "days" :> << [str |-> <<" ", "T", "u", "e", " ">>], [int |-> 2] >>,
               "days" :> << [int |-> 7] >>,
               "days" :> << [str |-> <<"f", "u", "n", "d", "a", "y">>] >>}
ParamsWeeks == {<<>>, "weeks" :> <<>>, "weeks" :> <<1, 5>>, "weeks" :> <<0>>,
                "weeks" :> <<6>>}
ParamsTimes == {<<>>, "start_time" :> <<"0", "9", ":", "3", "0">>,
                "end_time" :> <<"1", "6", ":", "0", "0">>,
                ("start_time" :> <<"2", "2", ":", "0", "0">>)
                    @@ ("end_time" :> <<"0", "2", ":", "0", "0">>)}
ParamsDates ==
    {<<>>} \cup { "start_date" :> d : d \in {1, 10} }
           \cup { "end_date" :> d : d \in {1, 10} }
           \cup { ("start_date" :> a) @@ ("end_date" :> b) : a \in {1, 10}, b \in {1, 10} }

\* the variables the constructor does not touch
paramsIdle == <<df, cfg, work, i, in_pos, entry_price, entry_qty, direction,
                profits, trimmed, retrimmed, split_data>>

InitParams ==
    /\ df = <<>>
    /\ InitVars

\* FilterParams(start_time=..., end_time=...): every hour and minute up to
\* MaxHour and MaxMinute, each written bare or zero-padded
ConstructWithTimes ==
    /\ pc = "start"
    /\ \E hh \in 0..MaxHour, mm \in 0..MaxMinute, hp \in BOOLEAN, mp \in BOOLEAN,
          partner \in PartnerTimes :
          /\ kwargs' = ("start_time" :> (Written(hh, hp) \o <<":">> \o Written(mm, mp)))
                           @@ partner
          /\ result' = FilterParams(kwargs')
    /\ pc' = "FilterParams"
    /\ UNCHANGED <<out, paramsIdle>>

\* FilterParams(start_time=..., end_time=...) with a text of another form
ConstructWithOddTimes ==
    /\ pc = "start"
    /\ \E t \in OddTimes, partner \in PartnerTimes :
          /\ kwargs' = ("start_time" :> t) @@ partner
          /\ result' = FilterParams(kwargs')
    /\ pc' = "FilterParams"
    /\ UNCHANGED <<out, paramsIdle>>

\* FilterParams(...) with any of the fields given
ConstructFilterParams ==
    /\ pc = "start"
    /\ \E kt \in ParamsTimes, kd \in ParamsDays, kw \in ParamsWeeks, kr \in ParamsDates :
          /\ kwargs' = kt @@ kd @@ kw @@ kr
          /\ result' = FilterParams(kwargs')
    /\ pc' = "FilterParams"
    /\ UNCHANGED <<out, paramsIdle>>

\* p.to_filter_kwargs() of the constructed p
ToFilterKwargs ==
    /\ pc = "FilterParams"
    /\ result.ok
    /\ out' = ToFilterKwargsOf(result.rows)
    /\ pc' = "to_filter_kwargs"
    /\ UNCHANGED <<kwargs, result, paramsIdle>>

NextParams ==
    \/ ConstructWithTimes
    \/ ConstructWithOddTimes
    \/ ConstructFilterParams
    \/ ToFilterKwargs

SpecParams == InitParams /\ [][NextParams]_vars

(* ------------------------ claims on FilterParams ---------------------- *)

\* exactly one of the two fields is given to the constructor
OnlyOneOf(a, b) == (a \in DOMAIN kwargs) # (b \in DOMAIN kwargs)

\* C21 as stated: constructing FilterParams with exactly one of start_time
\* and end_time, or with exactly one of start_date and end_date, fails with
\* a validation error.
C21_OneBoundRejected ==
    (pc = "FilterParams"
        /\ (OnlyOneOf("start_time", "end_time") \/ OnlyOneOf("start_date", "end_date")))
        => ~result.ok

\* C21: constructing FilterParams with exactly one of start_time and
\* end_time fails with a validation error; with exactly one of start_date
\* and end_date and nothing else it succeeds, and to_filter_kwargs of any
\* FilterParams constructed with one date alone holds no date key.
C21_OneTimeBoundRejected ==
    /\ (pc = "FilterParams" /\ OnlyOneOf("start_time", "end_time")) => ~result.ok
    /\ (pc = "FilterParams" /\ DOMAIN kwargs \in {{"start_date"}, {"end_date"}})
           => /\ result.ok
              /\ result.rows.start_date = Given(kwargs, "start_date")
              /\ result.rows.end_date = Given(kwargs, "end_date")
    /\ (pc = "to_filter_kwargs" /\ OnlyOneOf("start_date", "end_date"))
           => DOMAIN out \cap {"start_date", "end_date"} = {}

\* a well-formed start_time without its end_time was rejected
C21_Witness ==
    /\ pc = "FilterParams"
    /\ kwargs = ("start_time" :> <<"0", "9", ":", "3", "0">>)
    /\ ~result.ok

\* the position of the colon of a text with one colon, 0 otherwise
ColonAt(t) ==
    IF Cardinality({k \in 1..Len(t) : t[k] = ":"}) = 1
    THEN CHOOSE k \in 1..Len(t) : t[k] = ":"
    ELSE 0

\* t is one or two digits
OneOrTwoDigits(t) == Len(t) \in {1, 2} /\ \A k \in 1..Len(t) : IsDigit(t[k])

\* C22: a start_time of an hour 0..23 and a minute 0..59, each written with
\* one or two digits, is accepted (its end_time being valid) and normalized
\* to zero-padded HH:MM; an hour above 23 or a minute above 59 is rejected.
C22_TimesNormalized ==
    (/\ pc = "FilterParams"
     /\ DOMAIN kwargs = {"start_time", "end_time"}
     /\ kwargs.end_time = <<"1", "6", ":", "0", "0">>
     /\ ColonAt(kwargs.start_time) # 0)
        => LET t == kwargs.start_time
               hour == SubSeq(t, 1, ColonAt(t) - 1)
               minute == SubSeq(t, ColonAt(t) + 1, Len(t))
           IN  (OneOrTwoDigits(hour) /\ OneOrTwoDigits(minute))
                   => IF DigitsValue(hour) <= 23 /\ DigitsValue(minute) <= 59
                      THEN /\ result.ok
                           /\ result.rows.start_time =
                                  << TwoDigits(DigitsValue(hour)) \o <<":">>
                                         \o TwoDigits(DigitsValue(minute)) >>
                      ELSE ~result.ok

(* ================= apply_filters_and_profit, step by step ============= *)
(* utils.py: the statements of apply_filters_and_profit one after the     *)
(* other, on the raw alerts of one strategy or, from get_profit_df_by_name,*)
(* on the table process_and_split_data made of them.  work is the outcome *)
(* of the last statement, out the calls that have returned so far.        *)

\* the Description cells of the alerts: a buy, an exit, an exit in another
\* casing and padding, and text json.loads rejects
ApplyDescriptions ==
    { [blank |-> FALSE, wellformed |-> TRUE,
       fields |-> [trade_type |-> BUY, price |-> 100, quantity |-> 2]],
      [blank |-> FALSE, wellformed |-> TRUE,
       fields |-> [trade_type |-> EXIT, price |-> 110, quantity |-> 1]],
      [blank |-> FALSE, wellformed |-> TRUE,
       fields |-> [trade_type |-> <<" ", "E", "x", "i", "t", " ">>, price |-> 120,
                   quantity |-> 1]],
      [blank |-> FALSE, wellformed |-> FALSE, fields |-> <<>>] }

\* the filter keyword arguments: none, valid ones that keep some, all or no
\* rows, and invalid ones of each filter
ApplyKwargs ==
    { <<>>,
      "weeks" :> {1, 3},
      "weeks" :> {2},
      "weeks" :> {},
      "weeks" :> {6},
      "days" :> << [str |-> <<" ", "T", "u", "e", " ">>], [int |-> 2] >>,
      "days" :> << [str |-> <<"f", "u", "n", "d", "a", "y">>] >>,
      ("start_time" :> <<"2", "2", ":", "0", "0">>)
          @@ ("end_time" :> <<"0", "2", ":", "0", "0">>),
      ("start_time" :> <<"2", "2", "0", "0">>)
          @@ ("end_time" :> <<"0", "2", ":", "0", "0">>),
      ("start_date" :> Stamp(1, 0, 0)) @@ ("end_date" :> Stamp(8, 0, 0)),
      ("start_date" :> Stamp(28, 0, 0)) @@ ("end_date" :> Stamp(8, 0, 0)) }

\* the variables apply_filters_and_profit does not touch
applyIdle == <<df, i, in_pos, entry_price, entry_qty, direction, profits,
               trimmed, retrimmed>>

\* the raw alerts of the strategy A, received in or against the order of
\* their times
InitApply ==
    /\ \E n \in 1..MaxBatch, asc \in BOOLEAN :
          \E descs \in [1..n -> ApplyDescriptions] :
              df = [columns |-> {"Name", "Time", "Description"},
                    rows |-> [k \in 1..n |->
                                 [Name |-> "A",
                                  Time |-> TimeAt(IF asc THEN k ELSE n + 1 - k),
                                  Description |-> descs[k]]]]
    /\ InitVars

\* a statement has ended with the outcome o: the next statement follows, or
\* the exception leaves apply_filters_and_profit
Advance(o, call, next) ==
    /\ work' = o
    /\ IF o.ok
       THEN /\ pc' = next
            /\ out' = Append(out, call)
            /\ UNCHANGED result
       ELSE /\ pc' = "raised"
            /\ result' = o
            /\ UNCHANGED out

\* apply_filters_and_profit(df, delta, multiplier, flip, **kwargs) is called
\* on the raw alerts: df = df.copy()
EnterOnRawAlerts ==
    /\ pc = "start"
    /\ \E flip \in BOOLEAN, kw \in ApplyKwargs : kwargs' = ("flip" :> flip) @@ kw
    /\ work' = Ok(df)
    /\ cfg' = UtilsConfig
    /\ pc' = "clean"
    /\ UNCHANGED <<out, result, split_data, applyIdle>>

\* get_profit_df_by_name after process_and_split_data: the lookup of name
\* and the call of apply_filters_and_profit on split_data[name]
EnterByName ==
    /\ pc = "split"
    /\ \E flip \in BOOLEAN, kw \in ApplyKwargs : kwargs' = ("flip" :> flip) @@ kw
    /\ cfg' = UtilsConfig
    /\ IF ~split_data.ok
       THEN /\ result' = split_data
            /\ pc' = "raised"
            /\ UNCHANGED work
       ELSE IF "A" \notin DOMAIN split_data.rows
       THEN /\ result' = Raise("ValueError: not found in data")
            /\ pc' = "raised"
            /\ UNCHANGED work
       ELSE /\ work' = Ok(split_data.rows["A"])
            /\ pc' = "clean"
            /\ UNCHANGED result
    /\ UNCHANGED <<out, split_data, applyIdle>>

\* filterable_json_df = clean_filterable_json_df_pipe(df)
CleanStep ==
    /\ pc = "clean"
    /\ Advance(CleanFilterableJsonDfPipe(work.rows), "clean_filterable_json_df_pipe",
               "filter")
    /\ UNCHANGED <<kwargs, cfg, split_data, applyIdle>>

\* variant of FilterStep: the keyword arguments are not examined
FilterStep_Unexamined ==
    /\ pc = "filter"
    /\ Advance(Ok(work.rows), "filter_alert_data", "flip")
    /\ UNCHANGED <<kwargs, cfg, split_data, applyIdle>>

\* filtered_df = filter_alert_data(filterable_json_df, **kwargs)
FilterStep ==
    /\ pc = "filter"
    /\ Advance(FilterTable(work.rows, kwargs), "filter_alert_data", "flip")
    /\ UNCHANGED <<kwargs, cfg, split_data, applyIdle>>

\* if flip: filtered_df = apply_flips(filtered_df)
FlipStep ==
    /\ pc = "flip"
    /\ IF kwargs.flip
       THEN Advance(FlipTable(work.rows), "apply_flips", "profit")
       ELSE /\ pc' = "profit"
            /\ UNCHANGED <<work, out, result>>
    /\ UNCHANGED <<kwargs, cfg, split_data, applyIdle>>

\* return add_profit_and_fmt(filtered_df, multiplier=multiplier, delta=delta)
ProfitStep ==
    /\ pc = "profit"
    /\ result' = AddProfitAndFmt(work.rows, cfg)
    /\ pc' = IF result'.ok THEN "returned" ELSE "raised"
    /\ out' = IF result'.ok THEN Append(out, "add_profit_and_fmt") ELSE out
    /\ UNCHANGED <<work, kwargs, cfg, split_data, applyIdle>>

NextApply ==
    \/ EnterOnRawAlerts
    \/ ProcessAndSplit
    \/ EnterByName
    \/ CleanStep
    \/ FilterStep
    \/ FlipStep
    \/ ProfitStep

SpecApply == InitApply /\ [][NextApply]_vars

(* ---------------- claims on apply_filters_and_profit ------------------ *)

\* a filter configuration that is not valid: empty or out-of-range weeks, an
\* unrecognized weekday, an inverted date range, a time that is not HH:MM
InvalidConfig(kw) ==
    \/ /\ "weeks" \in DOMAIN kw
       /\ (kw.weeks = {} \/ \E w \in kw.weeks : w \notin 1..5)
    \/ /\ "days" \in DOMAIN kw
       /\ \E k \in 1..Len(kw.days) :
             IF "int" \in DOMAIN kw.days[k] THEN kw.days[k].int \notin 0..6
             ELSE StrLower(StrStrip(kw.days[k].str)) \notin DayNameToNumKeys
    \/ /\ "start_date" \in DOMAIN kw /\ "end_date" \in DOMAIN kw
       /\ DayOf(kw.end_date) < DayOf(kw.start_date)
    \/ /\ "start_time" \in DOMAIN kw /\ "end_time" \in DOMAIN kw
       /\ (ClockOf(kw.start_time) = -1 \/ ClockOf(kw.end_time) = -1)

\* the calls of out, as a set
Ran == {out[k] : k \in 1..Len(out)}

\* C23 as stated: in the per-strategy pipeline every invalid filter
\* configuration raises its validation error before any normalization,
\* trimming or profit step has run on the rows.
C23_ValidationBeforeProcessing ==
    (pc \in {"clean", "filter", "flip", "profit", "raised", "returned"}
        /\ InvalidConfig(kwargs))
        => /\ out = <<>>
           /\ pc \in {"raised", "returned"} => result = Raise("ValueError")

\* C23: in apply_filters_and_profit, called on raw alerts or from
\* get_profit_df_by_name, an invalid filter configuration is examined only
\* once normalization and trimming have returned: it then raises its
\* validation error, before any flip or profit step; when normalization
\* raises, that error leaves the call instead.  The call never returns.
C23_ValidationAfterTrimming ==
    (pc \in {"clean", "filter", "flip", "profit", "raised", "returned"}
        /\ InvalidConfig(kwargs))
        => /\ pc # "returned"
           /\ Ran \subseteq {"clean_filterable_json_df_pipe"}
           /\ (pc = "raised" /\ result = Raise("ValueError"))
                  => out = <<"clean_filterable_json_df_pipe">>
           /\ (pc = "raised" /\ out = <<"clean_filterable_json_df_pipe">>)
                  => result = Raise("ValueError")

\* empty weeks were rejected after the alerts had been normalized and trimmed
C23_Witness ==
    /\ pc = "raised"
    /\ "weeks" \in DOMAIN kwargs
    /\ kwargs.weeks = {}
    /\ Len(df.rows) = MaxBatch
    /\ out = <<"clean_filterable_json_df_pipe">>
    /\ result = Raise("ValueError")

\* the trimmed window of the raw alerts
Window == CleanFilterableJsonDfPipe(df).rows.rows

\* a row of the pipeline with its price and quantity as numbers
Plain(r) == [trade_type |-> r.trade_type, price |-> r.price[1],
             quantity |-> r.quantity[1]]

\* the position in w of the row labelled ts, 0 if there is none
PositionIn(w, ts) ==
    IF \E j \in 1..Len(w) : w[j].ts = ts THEN CHOOSE j \in 1..Len(w) : w[j].ts = ts
    ELSE 0

\* the returned row labelled ts, if there is one, carries the profit p
ReturnedProfit(ts, p) ==
    \A j \in 1..Len(result.rows.rows) :
        result.rows.rows[j].ts = ts => result.rows.rows[j].profit = Some(p)

\* the trade closed by row k of wf is made of the rows e and x of wu, and its
\* returned profit is the profit of that pair
PairsRowsOf(wu, wf, k) ==
    /\ PositionIn(wu, wf[k].ts) # 0
    /\ PositionIn(wu, wf[OpenEntry(wf, k - 1)].ts) # 0
    /\ wu[PositionIn(wu, wf[k].ts)] = wf[k]
    /\ wu[PositionIn(wu, wf[OpenEntry(wf, k - 1)].ts)] = wf[OpenEntry(wf, k - 1)]
    /\ wf[OpenEntry(wf, k - 1)].ts < wf[k].ts
    /\ ReturnedProfit(wf[k].ts,
           ClosedTradeProfit(Plain(wf[OpenEntry(wf, k - 1)]), Plain(wf[k]), cfg))

\* the trade closed by row k of wf is a closed trade of wu
SameTradeIn(wu, wf, k) ==
    /\ PairsRowsOf(wu, wf, k)
    /\ Closes(wu, PositionIn(wu, wf[k].ts))
    /\ OpenEntry(wu, PositionIn(wu, wf[k].ts) - 1)
           = PositionIn(wu, wf[OpenEntry(wf, k - 1)].ts)

\* the filter has kept every row of the window
KeepsAll(wu, wf) == Len(wf) = Len(wu)

\* C28 as stated: each closed trade that apply_filters_and_profit computes
\* on the filtered rows is a closed trade of the unfiltered trimmed window,
\* with the same entry row, exit row and profit.
C28_FilteredTradesAreWindowTrades ==
    (pc = "returned" /\ ~kwargs.flip)
        => \A k \in 1..Len(work.rows.rows) :
               Closes(work.rows.rows, k) => SameTradeIn(Window, work.rows.rows, k)

\* C28: the profit engine runs on the filtered rows alone.  Each closed trade
\* it computes pairs an entry row and a later exit row that are both rows of
\* the unfiltered trimmed window, with the profit of that pair; it is a
\* closed trade of the window when the filter has kept every row of it.
C28_FilteredTradesPairWindowRows ==
    (pc = "returned" /\ ~kwargs.flip)
        => \A k \in 1..Len(work.rows.rows) :
               Closes(work.rows.rows, k)
                   => /\ PairsRowsOf(Window, work.rows.rows, k)
                      /\ KeepsAll(Window, work.rows.rows)
                             => SameTradeIn(Window, work.rows.rows, k)

\* weeks 1 and 3 were kept of a window buy, exit, exit: the buy is paired with
\* the exit of week 3, which closes nothing in the window
C28_Witness ==
    /\ pc = "returned"
    /\ ~kwargs.flip
    /\ "weeks" \in DOMAIN kwargs
    /\ kwargs.weeks = {1, 3}
    /\ Len(Window) = 3
    /\ Len(work.rows.rows) = 2
    /\ Closes(work.rows.rows, 2)
    /\ ~Closes(Window, 3)
    /\ Len(result.rows.rows) = 1

\* the row labelled ts is among the returned rows
ReturnedAt(ts) == \E j \in 1..Len(result.rows.rows) : result.rows.rows[j].ts = ts

\* C29: add_profit_and_fmt returns exactly the rows that closed a position:
\* every row of its input that closes a position, whatever the casing or
\* padding of its exit token, is in the output, and every row of the output
\* closes a position and has a defined profit and running profit.
C29_ReturnsClosingRows ==
    pc = "returned"
        => /\ \A k \in 1..Len(work.rows.rows) :
                  Closes(work.rows.rows, k) <=> ReturnedAt(work.rows.rows[k].ts)
           /\ \A j \in 1..Len(result.rows.rows) :
                  /\ ~IsNaN(result.rows.rows[j].profit)
                  /\ ~IsNaN(result.rows.rows[j].rProfit)

(* ========================= the Signal Normalizer ====================== *)
(* processing.py: extract_json_from_description and then                  *)
(* format_timestamp_column_and_set_as_index on a raw table that has or    *)
(* lacks its columns.  A row holds a cell for every column; the cells of  *)
(* a column the table does not have are never read.                       *)

\* where the table keeps its raw timestamps: in Time, in timestamp (no
\* Time), in a datetime index (neither column), or nowhere (neither column
\* and an index whose text pd.to_datetime rejects)
TimeSources == {"Time", "timestamp", "index", "none"}

\* the Description cells: a full payload, a payload of a price alone, text
\* json.loads rejects, blank text
NormalizerDescriptions ==
    { [blank |-> FALSE, wellformed |-> TRUE,
       fields |-> [trade_type |-> BUY, price |-> 100, quantity |-> 2]],
      [blank |-> FALSE, wellformed |-> TRUE, fields |-> [price |-> 100]],
      [blank |-> FALSE, wellformed |-> FALSE, fields |-> <<>>],
      [blank |-> TRUE, wellformed |-> FALSE, fields |-> <<>>] }

\* the cell of another column than Time for the time w: a minute later per
\* column, so that the columns differ
Later(w, minutes) == IF w = Unparsable THEN Unparsable ELSE w + minutes

\* the variables the normalizer does not touch
normalizerIdle == <<cfg, i, in_pos, entry_price, entry_qty, direction, profits,
                    trimmed, retrimmed, kwargs, split_data, result>>

\* up to MaxBatch raw alerts of different strategies, received against the
\* order of their times, a timestamp of any of them unparsable
InitNormalizer ==
    /\ \E n \in 1..MaxBatch, source \in TimeSources,
          others \in SUBSET {"Name", "Description"} :
          \E descs \in [1..n -> NormalizerDescriptions],
             bad \in SUBSET (1..n) :
              df = [columns |-> others \cup (IF source \in {"Time", "timestamp"}
                                             THEN {source} ELSE {}),
                    rows |-> [k \in 1..n |->
                        LET w == IF k \in bad THEN Unparsable ELSE TimeAt(n + 1 - k)
                        IN  [Name |-> NameOrder[((k - 1) % Len(NameOrder)) + 1],
                             Description |-> descs[k],
                             Time |-> w,
                             timestamp |-> Later(w, 1),
                             ts |-> IF source = "none" THEN Unparsable
                                    ELSE Later(w, 2)]]]
    /\ InitVars

\* json_df = extract_json_from_description(df)
ExtractJson ==
    /\ pc = "start"
    /\ work' = ExtractJsonFromDescription(df)
    /\ pc' = "extract_json_from_description"
    /\ UNCHANGED <<df, out, normalizerIdle>>

\* fmt_ts_df = format_timestamp_column_and_set_as_index(json_df)
FormatTimestamp ==
    /\ pc = "extract_json_from_description"
    /\ work.ok
    /\ out' = FormatTimestampColumnAndSetAsIndex(work.rows)
    /\ pc' = "format_timestamp_column_and_set_as_index"
    /\ UNCHANGED <<df, work, normalizerIdle>>

NextNormalizer ==
    \/ ExtractJson
    \/ FormatTimestamp

SpecNormalizer == InitNormalizer /\ [][NextNormalizer]_vars

(* --------------------- claims on the Signal Normalizer ---------------- *)

\* the raw timestamp of row k of df: the cell the normalizer takes it from
RawTimestamp(k) ==
    IF "Time" \in df.columns THEN df.rows[k].Time
    ELSE IF "timestamp" \in df.columns THEN df.rows[k].timestamp
    ELSE df.rows[k].ts

\* json.loads has no object for the payload of row k of df
NoPayload(k) == df.rows[k].Description.blank \/ ~df.rows[k].Description.wellformed

\* C24: extract_json_from_description does not abort on a malformed or empty
\* payload: on a table that has its name and payload columns the output has
\* one row per input row in the same order, with the row's name and raw
\* timestamp; a row with malformed or empty JSON has every payload field
\* empty, a well-formed row has the fields of its payload.
C24_MalformedPayloadTolerated ==
    (pc = "extract_json_from_description" /\ {"Name", "Description"} \subseteq df.columns)
        => /\ work.ok
           /\ Len(work.rows.rows) = Len(df.rows)
           /\ \A k \in 1..Len(df.rows) :
                 /\ work.rows.rows[k].Name = df.rows[k].Name
                 /\ work.rows.rows[k].timestamp = RawTimestamp(k)
                 /\ NoPayload(k)
                        => /\ work.rows.rows[k].trade_type = NanText
                           /\ IsNaN(work.rows.rows[k].price)
                           /\ IsNaN(work.rows.rows[k].quantity)
                 /\ ~NoPayload(k)
                        => work.rows.rows[k].trade_type =
                               IF "trade_type" \in DOMAIN df.rows[k].Description.fields
                               THEN df.rows[k].Description.fields.trade_type
                               ELSE NanText
                 /\ ~NoPayload(k)
                        => \A key \in {"price", "quantity"} :
                               work.rows.rows[k][key] =
                                   IF key \in DOMAIN df.rows[k].Description.fields
                                   THEN Some(df.rows[k].Description.fields[key])
                                   ELSE NaN

\* a batch of a full payload, text json.loads rejects and blank text was
\* extracted
C24_Witness ==
    /\ pc = "extract_json_from_description"
    /\ work.ok
    /\ Len(df.rows) = 3
    /\ ~NoPayload(1)
    /\ ~df.rows[2].Description.blank /\ ~df.rows[2].Description.wellformed
    /\ df.rows[3].Description.blank
    /\ work.rows.rows[1].price = Some(100)
    /\ IsNaN(work.rows.rows[2].price)

\* row k of df has a raw timestamp that pd.to_datetime rejects
BadTimestamp(k) == RawTimestamp(k) = Unparsable

\* C25 as stated: an unparsable timestamp cell in one row is recovered
\* locally: format_timestamp_column_and_set_as_index does not raise, and the
\* remaining rows are normalized and returned.
C25_UnparsableTimestampRecovered ==
    (pc = "format_timestamp_column_and_set_as_index"
        /\ \E k \in 1..Len(df.rows) : BadTimestamp(k))
        => /\ out.ok
           /\ \A k \in 1..Len(df.rows) :
                  ~BadTimestamp(k)
                      => \E j \in 1..Len(out.rows.rows) :
                             /\ out.rows.rows[j].ts = RawTimestamp(k)
                             /\ out.rows.rows[j].Name = df.rows[k].Name

\* C25: an unparsable timestamp cell is not recovered locally:
\* format_timestamp_column_and_set_as_index raises the ValueError of
\* pd.to_datetime and returns no row when any cell of the timestamp column
\* is unparsable; when every cell parses it returns every row, indexed by
\* its parsed timestamp in ascending order.
C25_UnparsableTimestampRaises ==
    pc = "format_timestamp_column_and_set_as_index"
        => IF \E k \in 1..Len(df.rows) : BadTimestamp(k)
           THEN out = Raise("ValueError")
           ELSE /\ out.ok
                /\ Len(out.rows.rows) = Len(df.rows)
                /\ \A j \in 1..Len(out.rows.rows) - 1 :
                       out.rows.rows[j].ts <= out.rows.rows[j + 1].ts
                /\ \A k \in 1..Len(df.rows) :
                       \E j \in 1..Len(out.rows.rows) :
                           /\ out.rows.rows[j].ts = RawTimestamp(k)
                           /\ out.rows.rows[j].timestamp = RawTimestamp(k)
                           /\ out.rows.rows[j].Name = df.rows[k].Name

\* the second of three timestamps was unparsable and the call raised
C25_Witness ==
    /\ pc = "format_timestamp_column_and_set_as_index"
    /\ Len(df.rows) = 3
    /\ "Time" \in df.columns
    /\ {k \in 1..3 : BadTimestamp(k)} = {2}
    /\ ~out.ok

\* C26 as stated: normalization fails with a schema error whenever the
\* strategy name, the payload or the raw timestamp column is missing, and
\* does not when all three are present.
C26_ThreeColumnsRequired ==
    pc = "extract_json_from_description"
        => IF {"Name", "Description", "Time"} \subseteq df.columns
           THEN work.ok
           ELSE work = Raise("KeyError")

\* C26: normalization fails with a schema error exactly when the strategy
\* name or the payload column is missing.  A missing raw timestamp column is
\* no schema error: the timestamps are taken from a timestamp column, or
\* else from the index.
C26_NameAndPayloadRequired ==
    pc = "extract_json_from_description"
        => IF {"Name", "Description"} \subseteq df.columns
           THEN /\ work.ok
                /\ "Time" \notin df.columns
                       => \A k \in 1..Len(df.rows) :
                              work.rows.rows[k].timestamp =
                                  IF "timestamp" \in df.columns
                                  THEN df.rows[k].timestamp ELSE df.rows[k].ts
           ELSE work = Raise("KeyError")

\* a table without Time and timestamp columns was extracted, its timestamps
\* taken from the index
C26_Witness ==
    /\ pc = "extract_json_from_description"
    /\ df.columns = {"Name", "Description"}
    /\ Len(df.rows) = 2
    /\ work.ok
    /\ work.rows.rows[1].timestamp = df.rows[1].ts

(* ===================== a stream and its mirror image ================== *)
(* processing.py: add_trade_profit on a stream and on apply_flips of it,  *)
(* under the same keyword arguments.  work is the flipped stream, result  *)
(* the profits of the flipped stream, out the profits of the original.    *)

\* the price and quantity of the k-th signal of a stream
PriceQtyAt(k) == IF k % 2 = 1 THEN <<100, 2>> ELSE <<110, 1>>

\* the variables the three calls do not touch
mirrorIdle == <<i, in_pos, entry_price, entry_qty, direction, profits, trimmed,
                retrimmed, kwargs, split_data>>

\* a stream of up to MaxRows signals in the order of their times, and the
\* keyword arguments of add_trade_profit
InitMirror ==
    /\ \E n \in 1..MaxRows :
          \E tokens \in [1..n -> RawTokens] :
              df = [columns |-> {"trade_type", "price", "quantity"},
                    rows |-> [k \in 1..n |->
                                 [ts |-> k, trade_type |-> tokens[k],
                                  price |-> Some(PriceQtyAt(k)[1]),
                                  quantity |-> Some(PriceQtyAt(k)[2])]]]
    /\ InitVars

\* flipped = apply_flips(df)
FlipStream ==
    /\ pc = "start"
    /\ \E c \in Configs : cfg' = c
    /\ work' = FlipTable(df)
    /\ pc' = "apply_flips"
    /\ UNCHANGED <<df, out, result, mirrorIdle>>

\* add_trade_profit(flipped, **cfg)
ProfitOfFlipped ==
    /\ pc = "apply_flips"
    /\ work.ok
    /\ result' = AddTradeProfitTable(work.rows, cfg)
    /\ pc' = "add_trade_profit(flipped)"
    /\ UNCHANGED <<df, cfg, work, out, mirrorIdle>>

\* add_trade_profit(df, **cfg)
ProfitOfOriginal ==
    /\ pc = "add_trade_profit(flipped)"
    /\ out' = AddTradeProfitTable(df, cfg)
    /\ pc' = "add_trade_profit(df)"
    /\ UNCHANGED <<df, cfg, work, result, mirrorIdle>>

NextMirror ==
    \/ FlipStream
    \/ ProfitOfFlipped
    \/ ProfitOfOriginal

SpecMirror == InitMirror /\ [][NextMirror]_vars

(* ----------------------- claims on the mirror image ------------------- *)

\* C27: with buy = +1 and sell = -1, flipping a stream does not change which
\* rows close a position, and on every closing row the flipped profit plus
\* the original profit is -2 * delta * (fee_per_trade + entry_qty *
\* fee_per_unit): with zero fees the flipped profit is the negation of the
\* original.
C27_FlippedProfitMirrors ==
    pc = "add_trade_profit(df)"
        => /\ result.ok /\ out.ok
           /\ \A k \in 1..Len(df.rows) :
                 /\ Closes(df.rows, k) <=> Closes(work.rows.rows, k)
                 /\ Closes(df.rows, k) <=> ~IsNaN(out.rows.rows[k].profit)
                 /\ IsNaN(out.rows.rows[k].profit) <=> IsNaN(result.rows.rows[k].profit)
                 /\ ~IsNaN(out.rows.rows[k].profit)
                        => result.rows.rows[k].profit[1] + out.rows.rows[k].profit[1]
                               = (0 - 2) * cfg.delta
                                   * (cfg.fee_per_trade
                                        + df.rows[OpenEntry(df.rows, k - 1)].quantity[1]
                                            * cfg.fee_per_unit)

\* a long and a short trade of a stream with fees were both mirrored
C27_Witness ==
    /\ pc = "add_trade_profit(df)"
    /\ cfg.fee_per_unit # 0
    /\ Len(df.rows) = 4
    /\ Closes(df.rows, 2) /\ Closes(df.rows, 4)
    /\ RowDirection(df.rows[1]) = 1 /\ RowDirection(df.rows[3]) = -1
    /\ out.rows.rows[2].profit # result.rows.rows[2].profit

(* ------------- routes/services.py: ServiceWorker.bind_key_to_name ----- *)

\* Concurrent bind_key_to_name coroutines on one event loop (or on several
\* server processes) sharing the secret_key_index collection.  A coroutine
\* gives up control at each await, so a call is three steps: the find of
\* search_by_name, the code between the two awaits, and the insert of
\* KeysRepository.create.  In this specification
\*   df      is the secret_key_index collection, a set of documents
\*           [secret_key, name],
\*   pc      maps each call to its position,
\*   kwargs  maps each call to its argument name,
\*   work    maps each call to its existing_keys,
\*   out     maps each call to what it returned or raised.

\* number of concurrent bind_key_to_name calls
MaxCalls == 2

Calls == 1..MaxCalls

StrategyNames == {"A", "B"}

\* generate_secret_key() of a call: secrets.token_urlsafe(32) draws 256 random
\* bits, modelled as a token no other call and no stored document has
GenerateSecretKey(call) == <<"generated", call>>

\* the document of a name that was bound before the calls began
StoredKey(name) == [secret_key |-> <<"stored", name>>, name |-> name]

\* SecretKeyIndex.find(SecretKeyIndex.name == name).to_list()
SearchByName(collection, name) == {doc \in collection : doc.name = name}

\* HTTPException(status_code=409, ...)
Conflict == [status_code |-> 409]

\* the KeysRead returned for a created document
KeysRead(doc) == [status_code |-> 200, key |-> doc]

\* the document KeysRepository.create builds for a call
NewDocument(call, name) == [secret_key |-> GenerateSecretKey(call), name |-> name]

\* doc.insert() is refused when the secret_key is stored already: secret_key
\* carries the only unique index of the collection, the index on name is
\* not unique
DuplicateKey(collection, doc) == \E d \in collection : d.secret_key = doc.secret_key

\* pymongo's DuplicateKeyError, raised out of doc.insert()
DuplicateKeyError == [status_code |-> 500]

\* the variables the calls do not touch
bindIdle == <<cfg, i, in_pos, entry_price, entry_qty, direction, profits,
              trimmed, retrimmed, split_data, result>>

\* some names are bound already, and every call has its argument
InitBind ==
    /\ \E bound \in SUBSET StrategyNames : df = {StoredKey(n) : n \in bound}
    /\ kwargs \in [Calls -> StrategyNames]
    /\ pc = [c \in Calls |-> "start"]
    /\ work = [c \in Calls |-> {}]
    /\ out = [c \in Calls |-> <<>>]
    /\ cfg = DefaultConfig
    /\ i = 0
    /\ in_pos = FALSE
    /\ entry_price = NaN
    /\ entry_qty = 0
    /\ direction = 0
    /\ profits = <<>>
    /\ trimmed = <<>>
    /\ retrimmed = <<>>
    /\ split_data = <<>>
    /\ result = <<>>

\* existing_keys = await self.keys_service.repo.search_by_name(name)
AwaitSearchByName(c) ==
    /\ pc[c] = "start"
    /\ work' = [work EXCEPT ![c] = SearchByName(df, kwargs[c])]
    /\ pc' = [pc EXCEPT ![c] = "searched"]
    /\ UNCHANGED <<df, kwargs, out, bindIdle>>

\* if existing_keys: raise HTTPException(409)
RaiseConflict(c) ==
    /\ pc[c] = "searched"
    /\ work[c] # {}
    /\ out' = [out EXCEPT ![c] = Conflict]
    /\ pc' = [pc EXCEPT ![c] = "raised"]
    /\ UNCHANGED <<df, kwargs, work, bindIdle>>

\* secret_key = generate_secret_key(); payload = KeysCreate(...); the call
\* of keys_service.create(payload) up to the await of doc.insert()
KeysServiceCreate(c) ==
    /\ pc[c] = "searched"
    /\ work[c] = {}
    /\ pc' = [pc EXCEPT ![c] = "create"]
    /\ UNCHANGED <<df, kwargs, work, out, bindIdle>>

\* await doc.insert(); return KeysRead(...)
RepositoryCreate(c) ==
    /\ pc[c] = "create"
    /\ IF DuplicateKey(df, NewDocument(c, kwargs[c]))
       THEN /\ out' = [out EXCEPT ![c] = DuplicateKeyError]
            /\ pc' = [pc EXCEPT ![c] = "raised"]
            /\ df' = df
       ELSE /\ df' = df \cup {NewDocument(c, kwargs[c])}
            /\ out' = [out EXCEPT ![c] = KeysRead(NewDocument(c, kwargs[c]))]
            /\ pc' = [pc EXCEPT ![c] = "returned"]
    /\ UNCHANGED <<kwargs, work, bindIdle>>

NextBind ==
    \E c \in Calls :
        \/ AwaitSearchByName(c)
        \/ RaiseConflict(c)
        \/ KeysServiceCreate(c)
        \/ RepositoryCreate(c)

SpecBind == InitBind /\ [][NextBind]_vars

(* ----------------------- claims on bind_key_to_name ------------------- *)

\* the documents of the collection that carry the name
KeysOf(name) == {doc \in df : doc.name = name}

\* C30: after any interleaving of concurrent bind_key_to_name calls each
\* strategy name is bound to at most one secret key, and a call whose name
\* was bound when it searched raises 409 and creates no key.
C30_OneKeyPerName ==
    /\ \A n \in StrategyNames : Cardinality(KeysOf(n)) <= 1
    /\ \A c \in Calls :
          /\ pc[c] \in {"raised", "returned", "create"} /\ work[c] # {}
                => pc[c] = "raised" /\ out[c] = Conflict
          /\ pc[c] = "raised" => \A doc \in df : doc.secret_key # GenerateSecretKey(c)

====
